---- MODULE Spec2Model ----
(***************************************************************************)
(* A model of vulnhuntr's analysis orchestration engine.                   *)
(*                                                                         *)
(*   Spec      the session state store (simple_state.SimpleStateManager):  *)
(*             its public operations called in any order by any caller,    *)
(*             the state file they persist to, edits of the analysed       *)
(*             files, and process restarts that reload the state file.     *)
(*   SpecLoop  the reference per-file analysis of __main__.run: the        *)
(*             initial analysis and the vuln-specific round loop.          *)
(*   SpecRun   the reference run over its files, with the Resolver's       *)
(*             calls recorded.                                             *)
(*   SpecLimiter  one SimpleRateLimiter called by two threads while time   *)
(*             passes.                                                     *)
(*   SpecDispatch  one call of EnhancedLLM.chat_with_rate_limiting on a    *)
(*             bucket shared with other callers.                           *)
(*   SpecSave  the store's operations with _save_state taken step by step, *)
(*             stopped or failing at any step.                             *)
(*   SpecLoad  SpecSave with a state file that gets damaged.               *)
(*   SpecBatch  runs of the enhanced orchestrator over the files of a      *)
(*             repository, each run a process of its own.                  *)
(*   SpecSlice  the Resolver's extraction of a definition's source from    *)
(*             the positions the index reports.                            *)
(*   SpecProvider  chat called on an enhanced provider class.              *)
(*   SpecReset  SpecLimiter with a thread that calls                       *)
(*             EnhancedLLM.reset_rate_limiter.                             *)
(*   SpecAnalyze  the analysis of one file by either orchestrator: the     *)
(*             reference loop of SpecLoop, or _analyze_file of the         *)
(*             resumable one.                                              *)
(*   SpecExtract  one call of SymbolExtractor.extract: its four            *)
(*             strategies on the names jedi gives.                         *)
(*                                                                         *)
(* Time stamps (started_at, completed_at, failed_at, last_updated) and the *)
(* texts of prompts and analyses are left out: no modelled decision reads  *)
(* them.                                                                   *)
(***************************************************************************)
EXTENDS Integers, Sequences, FiniteSets, TLC

(***************************************************************************)
(* Bounds of the model.                                                    *)
(***************************************************************************)
\* mark_file_completed / mark_file_failed calls in one behaviour
MaxMarks == 2

\* paths handed to the store; "a" is edited during a run, "b" exists and is
\* left alone, "c" does not exist (the tests use paths that do not exist)
Files == {"a", "b", "c"}
Editable == {"a"}
\* the modification times an existing file takes (0 stands for a missing file)
Mtimes == {1, 2}
Missing == {"c"}
\* session ids, in the order start_session hands them out
SessionOrder == <<"s1", "s2">>
SessionIds == {"s1", "s2"}
\* an id no session has (test_error_handling)
UnknownSession == "invalid_session_id"
\* the file list of each scan: the whole repository, then one file of it
ScanFiles == [s1 |-> <<"a", "b", "c">>, s2 |-> <<"a">>]

(***************************************************************************)
(* Results.  The orchestrator stores Response.model_dump(), whose          *)
(* vulnerability_types are VulnType members (a str-based Enum); tests      *)
(* store plain dicts.  A value is tagged with its Python type.             *)
(***************************************************************************)
Enum(v) == [t |-> "VulnType", v |-> v]
Str(v) == [t |-> "str", v |-> v]
Results ==
    { [vuln |-> Enum("RCE"), confidence |-> 9],
      [vuln |-> Str("SQLI"), confidence |-> 7] }
\* Python's None
None == [none |-> TRUE]
Errors == {"Analysis timeout"}

\* Python's == on two results: a VulnType member equals the str of its value
PyEq(r1, r2) ==
    IF r1 = None \/ r2 = None THEN r1 = r2
    ELSE r1.confidence = r2.confidence /\ r1.vuln.v = r2.vuln.v

VARIABLES
    state,        \* SimpleStateManager.state: [sessions, completed_files]
    disk,         \* the state file: NoFile or the JSON document in it
    mtime,        \* the analysed files: path -> st_mtime, 0 when missing
    marks,        \* mark_file_* calls made so far
    marked        \* history: <<session, fingerprint, kind>> -> mark_file_* calls made

storeVars == <<state, disk, mtime, marks, marked>>

\* the reference analysis of one file (__main__.run)
VARIABLES
    pc,                       \* where run is: "initial", "resolve", "chat",
                              \*   "next_category", "done", "raised"
    vulnerability_types,      \* the categories of the initial report still to do
    vuln_type,                \* the category being analysed
    i,                        \* the round of the vuln-specific loop
    stored_code_definitions,  \* the names resolved so far in this category
    same_context,             \* a no-growth round was already seen
    previous_context_amount,  \* len(stored_code_definitions) before this round's lookups
    secondary_analysis_report,\* the last report: its round and requested names
    calls,                    \* history: model calls of this category's loop
    extracts,                 \* history: Resolver calls of this category's loop
    no_growth_rounds,         \* history: the rounds whose no-growth check fired
    ended_by                  \* history: why this category's loop ended

loopVars == <<pc, vulnerability_types, vuln_type, i, stored_code_definitions, same_context,
              previous_context_amount, secondary_analysis_report, calls, extracts,
              no_growth_rounds, ended_by>>

\* the run of __main__.run over its files
VARIABLES
    files_to_analyze,         \* the files still to analyse after the current one
    resolver_log              \* history: the names the last lookups passed to the
                              \*   Resolver, those it found, and the names resolved
                              \*   so far in the whole run

runVars == <<files_to_analyze, resolver_log>>

\* one SimpleRateLimiter shared by the threads of a process.  Time is in
\* whole seconds and tokens are held in sixtieths of a token, so that the
\* refill of elapsed * (requests_per_minute / 60.0) tokens is exact.
VARIABLES
    requests_per_minute,      \* the bucket's capacity, 0 before __init__
    tokens,                   \* self.tokens, in sixtieths of a token
    last_refill,              \* self.last_refill
    now,                      \* time.time(), seconds since __init__
    lock,                     \* self.lock: the thread that holds it, or NoThread
    thread,                   \* each thread: where it is in can_proceed, the tokens
                              \*   it read, its last result and wait_time, and how
                              \*   far it is in deny / wait_time / sleep / retry
    started,                  \* history: can_proceed calls started
    admitted,                 \* history: can_proceed calls that returned True
    denied                    \* history: can_proceed calls that returned False

limiterVars == <<requests_per_minute, tokens, last_refill, now, lock, thread, started,
                 admitted, denied>>

\* one call of EnhancedLLM.chat_with_rate_limiting
VARIABLES
    max_retries,              \* self.max_retries
    base_delay,               \* self.base_delay, seconds
    max_delay,                \* self.max_delay, seconds
    attempt,                  \* the loop variable of for attempt in range(max_retries)
    dpc,                      \* where the call is: "idle", "attempt", "denied",
                              \*   "recheck", "chat", "returned", "raised"
    reply,                    \* what the call returned or raised
    sends,                    \* history: calls of the provider's send_message
    failures,                 \* history: the exception caught in each failed attempt
    sleeps                    \* history: the time.sleep calls, in order

dispatchVars == <<max_retries, base_delay, max_delay, attempt, dpc, reply, sends, failures,
                  sleeps>>

\* the files of the state store, and the process that owns the manager
VARIABLES
    tmp,                      \* content of state_file.with_suffix('.tmp')
    backup,                   \* content of state_file.with_suffix('.backup')
    save_pc,                  \* where the running _save_state is: "none", "open",
                              \*   "write", "replace"
    manager                   \* "up": constructed; "down": the process is gone;
                              \*   "raised": the constructor raised

fileVars == <<tmp, backup, save_pc, manager>>

\* one process of the enhanced orchestrator (enhanced_main.EnhancedVulnhuntr)
VARIABLES
    bpc,                      \* "idle": constructed; "loop": in _process_files;
                              \*   "returned": run_analysis has returned
    self_session_id,          \* self.session_id ("" for None)
    batch,                    \* files_to_analyze of _process_files
    pos,                      \* index in batch of the file the loop is at
    processed_count,
    failed_count,
    exit_status,              \* of the process: exit(0 if success else 1); -1: none yet
    outcomes,                 \* history: what happened to each file of the batch
    io_failed,                \* history: a write of the state file raised IOError
    interrupted,              \* history: the file KeyboardInterrupt arrived in
    ended,                    \* history: how run_analysis returned
    runs,                     \* history: run_analysis calls so far
    path_type                 \* what the entries of batch are: "Path" or "str"

batchVars == <<bpc, self_session_id, batch, pos, processed_count, failed_count,
               exit_status, outcomes, io_failed, interrupted, ended, runs, path_type>>

\* one lookup of the Resolver (symbol_finder.SymbolExtractor._create_match_obj)
VARIABLES
    module_lines,             \* the lines of the file at name.module_path
    module_origin,            \* "repo", or "third_party" for a path under /third_party/
    def_start,                \* name.get_definition_start_position(): <<line, column>>
    def_end,                  \* name.get_definition_end_position()
    match_source,             \* the 'source' of the match object
    rpc                       \* "idle", "located", "extracted"

resolverVars == <<module_lines, module_origin, def_start, def_end, match_source, rpc>>

\* one call of chat on an enhanced provider (enhanced_providers.Claude)
VARIABLES
    stack,                    \* the active chat_with_rate_limiting frames, innermost
                              \*   last: the attempt each is in
    raising,                  \* the exception on its way up ("" for none)
    ppc,                      \* "idle", "running", "returned", "raised"
    entries,                  \* history: entries into chat_with_rate_limiting
    tries,                    \* history: attempts begun, over all frames
    consumed,                 \* history: limiter tokens taken
    provider_sends            \* history: calls of the provider's send_message

providerVars == <<stack, raising, ppc, entries, tries, consumed, provider_sends>>

\* a thread inside EnhancedLLM.reset_rate_limiter
VARIABLES
    reset_pc                  \* "idle", or "tokens_set" between its two assignments

resetVars == <<reset_pc>>

\* one call of EnhancedVulnhuntr._analyze_file
VARIABLES
    apc,                      \* "idle", "categories", "returned", "raised"
    initial_analysis_report,  \* the report retained so far: its confidence and
                              \*   origin (0: the initial analysis, k: category k)
    first_report,             \* history: the initial report as the model gave it
    category_index,           \* index of the category the for loop is at
    chat_calls,               \* history: llm.chat calls
    category_reports,         \* history: confidence of each category's report,
                              \*   -1 for a call that raised
    analysis_result           \* what _analyze_file returned

analyzeVars == <<apc, initial_analysis_report, first_report, category_index, chat_calls,
                 category_reports, analysis_result>>

\* one call of SymbolExtractor.extract
VARIABLES
    xpc,             \* "idle", the strategy that is next, or "returned"
    symbol_name,     \* the requested name, a sequence of characters
    scripts,         \* whether a file holds the code line (matching_files)
    consulted,       \* history: the strategies run, each with whether it hit
    extract_result   \* what extract returned

extractVars == <<xpc, symbol_name, scripts, consulted, extract_result>>

laterVars == <<fileVars, batchVars, resolverVars, providerVars, resetVars, analyzeVars,
               extractVars>>

otherVars == <<runVars, limiterVars, dispatchVars, laterVars>>

nonLimiterVars == <<storeVars, loopVars, runVars, dispatchVars, laterVars>>

nonDispatchVars == <<storeVars, loopVars, runVars, laterVars>>

NoFile == [nofile |-> TRUE]

\* the state _load_state returns when there is no usable file
EmptyState == [sessions |-> << >>, completed_files |-> << >>]

(***************************************************************************)
(* json.dump / json.load of the state.  A str-based Enum member is written *)
(* as its value and read back as a plain str; the other values modelled    *)
(* (str keys, ints, lists, dicts) come back as they were.                  *)
(***************************************************************************)
json_value(x) == IF x.t = "VulnType" THEN Str(x.v) ELSE x

json_result(r) == [r EXCEPT !.vuln = json_value(r.vuln)]

json_record(rec) ==
    IF "result" \in DOMAIN rec
    THEN [rec EXCEPT !.result = json_result(rec.result)]
    ELSE rec

\* a dump that loses the completed-file table
json_dump_sessions_only(st) == [sessions |-> st.sessions, completed_files |-> << >>]

json_dump(st) ==
    [sessions |-> st.sessions,
     completed_files |->
        [fp \in DOMAIN st.completed_files |-> json_record(st.completed_files[fp])]]

json_load(doc) == [sessions |-> doc.sessions, completed_files |-> doc.completed_files]

\* _load_state: the parsed document, or the fresh state when no file exists
load_state(d) == IF d = NoFile THEN EmptyState ELSE json_load(d)

\* _save_state: temp file, then rename; here the write succeeds
save_state(st) == json_dump(st)

(***************************************************************************)
(* _calculate_file_hash: md5 of "<path>_<mtime>" for an existing file, of  *)
(* the path alone for a missing one.  md5 is taken as injective, so the    *)
(* hashed text stands for the digest.                                      *)
(***************************************************************************)
\* the path alone as the key: an edit would not invalidate the cache
calculate_file_hash_path_only(f, mt) == <<f>>

calculate_file_hash(f, mt) == IF mt[f] # 0 THEN <<f, mt[f]>> ELSE <<f>>

Fingerprints == {<<f, m>> : f \in Files, m \in Mtimes} \cup {<<f>> : f \in Files}

\* a dict rebuilt from the new entry alone: the other entries are lost
Put_replaces_all(d, k, v) == [x \in {k} |-> v]

\* dict.setdefault: an existing entry is kept, the first write wins
Put_first_wins(d, k, v) ==
    [x \in DOMAIN d \cup {k} |-> IF x \in DOMAIN d THEN d[x] ELSE v]

\* dict assignment d[k] = v
Put(d, k, v) == [x \in DOMAIN d \cup {k} |-> IF x = k THEN v ELSE d[x]]

\* the loop of get_pending_files: the files of s, in order, whose fingerprint
\* is no key of completed_files
RECURSIVE Filter(_, _, _, _)
Filter(s, st, mt, k) ==
    IF k > Len(s) THEN << >>
    ELSE (IF calculate_file_hash(s[k], mt) \notin DOMAIN st.completed_files
          THEN <<s[k]>> ELSE << >>) \o Filter(s, st, mt, k + 1)

\* a cache that is never hit
get_cached_result_never(st, mt, f) == None

\* get_cached_result
get_cached_result(st, mt, f) ==
    LET file_hash == calculate_file_hash(f, mt) IN
    IF file_hash \in DOMAIN st.completed_files
       /\ "result" \in DOMAIN st.completed_files[file_hash]
       /\ ~("status" \in DOMAIN st.completed_files[file_hash]
            /\ st.completed_files[file_hash].status = "failed")
    THEN st.completed_files[file_hash].result
    ELSE None

\* is_file_failed
is_file_failed(st, mt, f) ==
    LET file_hash == calculate_file_hash(f, mt) IN
    /\ file_hash \in DOMAIN st.completed_files
    /\ "status" \in DOMAIN st.completed_files[file_hash]
    /\ st.completed_files[file_hash].status = "failed"

\* pending computed against the session's own records only
RECURSIVE FilterOwn(_, _, _, _, _)
FilterOwn(s, st, mt, session_id, k) ==
    IF k > Len(s) THEN << >>
    ELSE (IF calculate_file_hash(s[k], mt) \in DOMAIN st.completed_files
             /\ st.completed_files[calculate_file_hash(s[k], mt)].session_id = session_id
          THEN << >> ELSE <<s[k]>>) \o FilterOwn(s, st, mt, session_id, k + 1)

get_pending_files_own_session(st, mt, session_id) ==
    IF session_id \notin DOMAIN st.sessions THEN << >>
    ELSE FilterOwn(st.sessions[session_id].files, st, mt, session_id, 1)

\* get_pending_files
get_pending_files(st, mt, session_id) ==
    IF session_id \notin DOMAIN st.sessions THEN << >>
    ELSE Filter(st.sessions[session_id].files, st, mt, 1)

\* _generate_session_id: md5 of repo path and start time, taken as fresh
generate_session_id(st) == SessionOrder[Cardinality(DOMAIN st.sessions) + 1]

\* the session entry start_session writes
new_session(files) ==
    [total_files |-> Len(files), completed_files |-> 0,
     files |-> files, status |-> "running"]

\* the record mark_file_completed writes
completed_record(session_id, f, result) ==
    [file_path |-> f, result |-> result, session_id |-> session_id]

\* the record mark_file_failed writes
failed_record(session_id, f, error) ==
    [file_path |-> f, error |-> error, session_id |-> session_id, status |-> "failed"]

\* progress that is not counted
update_progress_skipped(ss, session_id) == ss

\* "Update session progress" of mark_file_completed and mark_file_failed
update_progress(ss, session_id) ==
    IF session_id \in DOMAIN ss
    THEN [ss EXCEPT ![session_id].completed_files = @ + 1]
    ELSE ss

\* the state after start_session(repo_path, files)
with_session(st, files) ==
    [st EXCEPT !.sessions = Put(@, generate_session_id(st), new_session(files))]

\* the state after mark_file_completed(session_id, f, result)
with_completed(st, mt, session_id, f, result) ==
    [sessions |-> update_progress(st.sessions, session_id),
     completed_files |->
        Put(st.completed_files, calculate_file_hash(f, mt),
            completed_record(session_id, f, result))]

\* a failure that leaves no record
with_failed_unrecorded(st, mt, session_id, f, error) == st

\* the state after mark_file_failed(session_id, f, error)
with_failed(st, mt, session_id, f, error) ==
    [sessions |-> update_progress(st.sessions, session_id),
     completed_files |->
        Put(st.completed_files, calculate_file_hash(f, mt),
            failed_record(session_id, f, error))]

\* the state after complete_session / fail_session: an unknown id changes nothing
with_status(st, session_id, status) ==
    IF session_id \in DOMAIN st.sessions
    THEN [st EXCEPT !.sessions[session_id].status = status]
    ELSE st

\* the history with one more call for key k
Counted(h, k) ==
    [x \in DOMAIN h \cup {k} |->
        IF x = k THEN (IF k \in DOMAIN h THEN h[k] + 1 ELSE 1) ELSE h[x]]

\* the session ids a caller passes: those of started sessions, or an unknown one
SessionArgs == SessionIds \cup {UnknownSession}
KnownOrInvalid(session_id) ==
    session_id \in DOMAIN state.sessions \/ session_id = UnknownSession

InitStore ==
    /\ state = EmptyState
    /\ disk = NoFile
    /\ mtime = [f \in Files |-> IF f \in Missing THEN 0 ELSE 1]
    /\ marks = 0
    /\ marked = << >>

\* the write to the state file that ends every mutating operation
Save == disk' = save_state(state')

start_session(files) ==
    /\ Cardinality(DOMAIN state.sessions) < Len(SessionOrder)
    /\ files = ScanFiles[generate_session_id(state)]
    /\ state' = with_session(state, files)
    /\ Save
    /\ UNCHANGED <<mtime, marks, marked>>
    /\ UNCHANGED <<loopVars, otherVars>>

mark_file_completed(session_id, f, result) ==
    /\ marks < MaxMarks
    /\ KnownOrInvalid(session_id)
    /\ marks' = marks + 1
    /\ marked' = Counted(marked, <<session_id, calculate_file_hash(f, mtime), "completed">>)
    /\ state' = with_completed(state, mtime, session_id, f, result)
    /\ Save
    /\ UNCHANGED mtime
    /\ UNCHANGED <<loopVars, otherVars>>

mark_file_failed(session_id, f, error) ==
    /\ marks < MaxMarks
    /\ KnownOrInvalid(session_id)
    /\ marks' = marks + 1
    /\ marked' = Counted(marked, <<session_id, calculate_file_hash(f, mtime), "failed">>)
    /\ state' = with_failed(state, mtime, session_id, f, error)
    /\ Save
    /\ UNCHANGED mtime
    /\ UNCHANGED <<loopVars, otherVars>>

complete_session(session_id) ==
    /\ session_id \in DOMAIN state.sessions
    /\ state' = with_status(state, session_id, "completed")
    /\ Save
    /\ UNCHANGED <<mtime, marks, marked>>
    /\ UNCHANGED <<loopVars, otherVars>>

fail_session(session_id) ==
    /\ session_id \in DOMAIN state.sessions
    /\ state' = with_status(state, session_id, "failed")
    /\ Save
    /\ UNCHANGED <<mtime, marks, marked>>
    /\ UNCHANGED <<loopVars, otherVars>>

\* the analysed file is written (or restored): its modification time changes
EditFile(f, m) ==
    /\ f \in Editable
    /\ m # mtime[f]
    /\ mtime' = [mtime EXCEPT ![f] = m]
    /\ UNCHANGED <<state, disk, marks, marked>>
    /\ UNCHANGED <<loopVars, otherVars>>

\* the process ends and a new SimpleStateManager is constructed on the file
Restart ==
    /\ state' = load_state(disk)
    /\ UNCHANGED <<disk, mtime, marks, marked>>
    /\ UNCHANGED <<loopVars, otherVars>>

NextStore ==
    \/ \E files \in {ScanFiles[k] : k \in SessionIds} : start_session(files)
    \/ \E sid \in SessionArgs, f \in Files, r \in Results :
          mark_file_completed(sid, f, r)
    \/ \E sid \in SessionArgs, f \in Files, e \in Errors :
          mark_file_failed(sid, f, e)
    \/ \E sid \in SessionIds : complete_session(sid)
    \/ \E sid \in SessionIds : fail_session(sid)
    \/ \E f \in Files, m \in Mtimes : EditFile(f, m)
    \/ Restart


(***************************************************************************)
(* The reference analysis of one file: __main__.run, the body of its       *)
(* for py_f loop.  A report is reduced to what run reads of it: the        *)
(* confidence score, the vulnerability types and the names of its          *)
(* context_code items.                                                     *)
(***************************************************************************)
\* range(7) of the vuln-specific loop
Rounds == 7

\* the names a report may request, and the requests a report may hold
Names == {"n1", "n2", "n3", "n4", "n5"}
Requests == {req \in SUBSET Names : Cardinality(req) <= 2}
\* the initial report's confidence scores and category lists
Confidences == {0, 5}
CategoryLists == {<< >>, <<"LFI">>, <<"LFI", "RCE">>}

NoReport == [vuln_type |-> "", round |-> -1, context_code |-> {}]

InitLoop ==
    /\ pc = "initial"
    /\ vulnerability_types = << >>
    /\ vuln_type = ""
    /\ i = 0
    /\ stored_code_definitions = {}
    /\ same_context = FALSE
    /\ previous_context_amount = 0
    /\ secondary_analysis_report = NoReport
    /\ calls = 0
    /\ extracts = 0
    /\ no_growth_rounds = {}
    /\ ended_by = ""

\* the initial analysis: one model call; with confidence 0 or no category
\* the file is done
InitialAnalysis(confidence_score, types) ==
    /\ pc = "initial"
    /\ IF confidence_score > 0 /\ Len(types) > 0
       THEN /\ vulnerability_types' = types
            /\ pc' = "next_category"
       ELSE /\ vulnerability_types' = << >>
            /\ pc' = "done"
    /\ UNCHANGED <<vuln_type, i, stored_code_definitions, same_context,
                   previous_context_amount, secondary_analysis_report, calls, extracts,
                   no_growth_rounds, ended_by>>

\* for vuln_type in vulnerability_types: the next category starts with
\* nothing resolved, or the file is done
NextCategory ==
    /\ pc = "next_category"
    /\ IF vulnerability_types = << >>
       THEN /\ pc' = "done"
            /\ UNCHANGED <<vulnerability_types, vuln_type, i, stored_code_definitions,
                           same_context, previous_context_amount,
                           secondary_analysis_report, calls, extracts, no_growth_rounds,
                           ended_by>>
       ELSE /\ vuln_type' = Head(vulnerability_types)
            /\ vulnerability_types' = Tail(vulnerability_types)
            /\ stored_code_definitions' = {}
            /\ same_context' = FALSE
            /\ previous_context_amount' = 0
            /\ i' = 0
            /\ pc' = "chat"
            /\ calls' = 0
            /\ extracts' = 0
            /\ no_growth_rounds' = {}
            /\ ended_by' = ""
            /\ UNCHANGED secondary_analysis_report

\* lookups that do not test whether the name is already stored
to_resolve_all(context_code, stored) == context_code

\* the names of a report handed to code_extractor.extract: those not in
\* stored_code_definitions
to_resolve(context_code, stored) == context_code \ stored

\* round i > 0, before the call: every requested name not yet stored goes to
\* the Resolver, and those it finds (found) are stored
ResolveContext(found) ==
    /\ pc = "resolve"
    /\ found \subseteq to_resolve(secondary_analysis_report.context_code,
                                  stored_code_definitions)
    /\ previous_context_amount' = Cardinality(stored_code_definitions)
    /\ stored_code_definitions' = stored_code_definitions \cup found
    /\ extracts' = extracts
          + Cardinality(to_resolve(secondary_analysis_report.context_code,
                                   stored_code_definitions))
    /\ pc' = "chat"
    /\ UNCHANGED <<vulnerability_types, vuln_type, i, same_context,
                   secondary_analysis_report, calls, no_growth_rounds, ended_by>>

\* the no-growth check of round i: nothing was added by this round's lookups
no_growth(amount, stored, round) == amount >= Cardinality(stored) /\ round > 0

\* a loop of one round more
round_end_one_more(context_code, amount, stored, round, same) ==
    IF Cardinality(context_code) = 0 THEN "zero_context"
    ELSE IF no_growth(amount, stored, round) /\ same THEN "no_growth"
    ELSE IF round >= Rounds THEN "rounds"
    ELSE ""

\* a loop that goes on after a report that requests nothing
round_end_no_zero_check(context_code, amount, stored, round, same) ==
    IF no_growth(amount, stored, round) /\ same THEN "no_growth"
    ELSE IF round + 1 >= Rounds THEN "rounds"
    ELSE ""

\* a loop with no tolerated no-growth round
round_end_first_no_growth(context_code, amount, stored, round, same) ==
    IF Cardinality(context_code) = 0 THEN "zero_context"
    ELSE IF no_growth(amount, stored, round) THEN "no_growth"
    ELSE IF round + 1 >= Rounds THEN "rounds"
    ELSE ""

\* how the round that got report context_code ends: "" when the loop goes on
round_end(context_code, amount, stored, round, same) ==
    IF Cardinality(context_code) = 0 THEN "zero_context"
    ELSE IF no_growth(amount, stored, round) /\ same THEN "no_growth"
    ELSE IF round + 1 >= Rounds THEN "rounds"
    ELSE ""

\* a flag cleared again by a round that grew the set
next_same_context_reset(same, fired) == fired

\* same_context after the round's check: set by a no-growth round, never cleared
next_same_context(same, fired) == same \/ fired

\* the model call of round i and the checks after it
ModelCall(context_code) ==
    /\ pc = "chat"
    /\ calls' = calls + 1
    /\ secondary_analysis_report' =
          [vuln_type |-> vuln_type, round |-> i, context_code |-> context_code]
    /\ LET end == round_end(context_code, previous_context_amount,
                            stored_code_definitions, i, same_context)
           fired == /\ Cardinality(context_code) # 0
                    /\ no_growth(previous_context_amount, stored_code_definitions, i)
       IN /\ ended_by' = end
          /\ no_growth_rounds' = IF fired THEN no_growth_rounds \cup {i} ELSE no_growth_rounds
          /\ same_context' = next_same_context(same_context, fired)
          /\ IF end = ""
             THEN i' = i + 1 /\ pc' = "resolve"
             ELSE i' = i /\ pc' = "next_category"
    /\ UNCHANGED <<vulnerability_types, vuln_type, stored_code_definitions,
                   previous_context_amount, extracts>>

\* llm.chat raises (a validation or transport failure): run ends with it
ModelRaises ==
    /\ pc \in {"initial", "chat"}
    /\ calls' = IF pc = "chat" THEN calls + 1 ELSE calls
    /\ pc' = "raised"
    /\ UNCHANGED <<vulnerability_types, vuln_type, i, stored_code_definitions,
                   same_context, previous_context_amount, secondary_analysis_report,
                   extracts, no_growth_rounds, ended_by>>

NextLoop ==
    \/ \E c \in Confidences, types \in CategoryLists :
          InitialAnalysis(c, types) /\ UNCHANGED <<storeVars, otherVars>>
    \/ NextCategory /\ UNCHANGED <<storeVars, otherVars>>
    \/ \E found \in SUBSET Names : ResolveContext(found) /\ UNCHANGED <<storeVars, otherVars>>
    \/ \E context_code \in Requests : ModelCall(context_code) /\ UNCHANGED <<storeVars, otherVars>>
    \/ ModelRaises /\ UNCHANGED <<storeVars, otherVars>>

(***************************************************************************)
(* The whole run of __main__.run: its files one after the other, with the  *)
(* Resolver's calls recorded.                                              *)
(***************************************************************************)
\* files_to_analyze of the run
RunFiles == <<"a", "b">>
\* the names the reports of the run may request
RunNames == {"n1", "n2"}

InitRun ==
    /\ files_to_analyze = Tail(RunFiles)
    /\ resolver_log = [passed |-> {}, found |-> {}, resolved |-> {}]

\* for py_f in files_to_analyze: the next file starts with its initial analysis
NextFile ==
    /\ pc = "done"
    /\ files_to_analyze # << >>
    /\ files_to_analyze' = Tail(files_to_analyze)
    /\ pc' = "initial"
    /\ vulnerability_types' = << >>
    /\ vuln_type' = ""
    /\ i' = 0
    /\ stored_code_definitions' = {}
    /\ same_context' = FALSE
    /\ previous_context_amount' = 0
    /\ secondary_analysis_report' = NoReport
    /\ calls' = 0
    /\ extracts' = 0
    /\ no_growth_rounds' = {}
    /\ ended_by' = ""
    /\ UNCHANGED resolver_log

\* the lookups of a round, recorded
LoggedResolveContext(found) ==
    /\ ResolveContext(found)
    /\ resolver_log' =
          [passed |-> to_resolve(secondary_analysis_report.context_code,
                                 stored_code_definitions),
           found |-> found,
           resolved |-> resolver_log.resolved \cup found]
    /\ UNCHANGED files_to_analyze

NextRun ==
    \/ \E c \in Confidences, types \in CategoryLists :
          InitialAnalysis(c, types) /\ UNCHANGED <<storeVars, otherVars>>
    \/ NextCategory /\ UNCHANGED <<storeVars, otherVars>>
    \/ \E found \in SUBSET RunNames :
          LoggedResolveContext(found) /\ UNCHANGED <<storeVars, limiterVars, dispatchVars, laterVars>>
    \/ \E context_code \in SUBSET RunNames :
          ModelCall(context_code) /\ UNCHANGED <<storeVars, otherVars>>
    \/ ModelRaises /\ UNCHANGED <<storeVars, otherVars>>
    \/ NextFile /\ UNCHANGED <<storeVars, limiterVars, dispatchVars, laterVars>>

(***************************************************************************)
(* The rate limiter: simple_rate_limiter.SimpleRateLimiter, one bucket     *)
(* called by several threads while time passes.                            *)
(***************************************************************************)
\* can_proceed calls in one behaviour
MaxCalls == 5
\* the clock stops advancing by itself at MaxTime seconds (sleeps still run)
MaxTime == 60
\* the 60.0 seconds of a minute in tokens_to_add and wait_time
Minute == 60
\* the capacities tried: each divides 60, so every wait_time is whole seconds
Capacities == {1, 2, 3}
\* the seconds that pass between two steps
TickSeconds == {10, 20}
Threads == {"t1", "t2"}
NoThread == "none"

IdleThread == [pc |-> "idle", read |-> 0, result |-> FALSE, wait |-> 0, phase |-> "none"]

Min(a, b) == IF a <= b THEN a ELSE b

\* a lock that never blocks
lock_free_always(l) == TRUE

\* with self.lock: the lock can be taken when no thread holds it
lock_free(l) == l = NoThread

\* a refill without the cap
refill_uncapped(t, elapsed, rpm) == t + elapsed * rpm

\* min(requests_per_minute, tokens + elapsed * (requests_per_minute / 60.0))
refill(t, elapsed, rpm) == Min(rpm * Minute, t + elapsed * rpm)

\* a test that needs more than one token
has_token_strict(t) == t > Minute

\* self.tokens >= 1
has_token(t) == t >= Minute

\* the missing tokens multiplied by the rate instead of divided by it
wait_time_times_rate(t, rpm) ==
    IF has_token(t) THEN 0 ELSE ((Minute - t) * rpm) \div (Minute * Minute)

\* the time until the bucket is full
wait_time_until_full(t, rpm) ==
    IF has_token(t) THEN 0 ELSE (rpm * Minute - t) \div rpm

\* wait_time: 0 with a token available, else (1 - tokens) / (rpm / 60.0)
wait_time(t, rpm) ==
    IF has_token(t) THEN 0 ELSE (Minute - t) \div rpm

InitLimiter ==
    /\ requests_per_minute = 0
    /\ tokens = 0
    /\ last_refill = 0
    /\ now = 0
    /\ lock = NoThread
    /\ thread = [t \in Threads |-> IdleThread]
    /\ started = 0
    /\ admitted = 0
    /\ denied = 0

Constructed == requests_per_minute > 0

\* a use of the bucket by t ends the deny / wait_time / sleep / retry sequence
\* of every other thread: that thread is no longer the bucket's single caller
Alone(t) ==
    [u \in Threads |-> IF u = t THEN thread[u] ELSE [thread[u] EXCEPT !.phase = "none"]]

\* SimpleRateLimiter(requests_per_minute): a full bucket
NewLimiter(rpm) ==
    /\ ~Constructed
    /\ requests_per_minute' = rpm
    /\ tokens' = rpm * Minute
    /\ last_refill' = now
    /\ UNCHANGED <<now, lock, thread, started, admitted, denied>>

\* thread t calls can_proceed
CallCanProceed(t) ==
    /\ Constructed
    /\ thread[t].pc = "idle"
    /\ started < MaxCalls
    /\ started' = started + 1
    /\ thread' = [Alone(t) EXCEPT ![t].pc = "acquire",
                     ![t].phase = IF thread[t].phase = "slept" THEN "retry" ELSE "none"]
    /\ UNCHANGED <<requests_per_minute, tokens, last_refill, now, lock, admitted, denied>>

\* with self.lock
Acquire(t) ==
    /\ thread[t].pc = "acquire"
    /\ lock_free(lock)
    /\ lock' = t
    /\ thread' = [Alone(t) EXCEPT ![t].pc = "refill"]
    /\ UNCHANGED <<requests_per_minute, tokens, last_refill, now, started, admitted, denied>>

\* now = time.time(); the elapsed time is turned into tokens, up to capacity
Refill(t) ==
    /\ thread[t].pc = "refill"
    /\ tokens' = refill(tokens, now - last_refill, requests_per_minute)
    /\ last_refill' = now
    /\ thread' = [thread EXCEPT ![t].pc = "check"]
    /\ UNCHANGED <<requests_per_minute, now, lock, started, admitted, denied>>

\* if self.tokens >= 1: the tokens are read for the decrement
Check(t) ==
    /\ thread[t].pc = "check"
    /\ IF has_token(tokens)
       THEN thread' = [thread EXCEPT ![t].pc = "consume", ![t].read = tokens]
       ELSE thread' = [thread EXCEPT ![t].pc = "release", ![t].result = FALSE]
    /\ UNCHANGED <<requests_per_minute, tokens, last_refill, now, lock, started, admitted,
                   denied>>

\* self.tokens -= 1: the decremented value is written back
Consume(t) ==
    /\ thread[t].pc = "consume"
    /\ tokens' = thread[t].read - Minute
    /\ thread' = [thread EXCEPT ![t].pc = "release", ![t].result = TRUE]
    /\ UNCHANGED <<requests_per_minute, last_refill, now, lock, started, admitted, denied>>

\* the lock is released and can_proceed returns
Release(t) ==
    /\ thread[t].pc = "release"
    /\ lock' = NoThread
    /\ thread' = [thread EXCEPT ![t].pc = "idle", ![t].read = 0,
                     ![t].phase = IF thread[t].result THEN "none" ELSE "denied"]
    /\ admitted' = IF thread[t].result THEN admitted + 1 ELSE admitted
    /\ denied' = IF thread[t].result THEN denied ELSE denied + 1
    /\ UNCHANGED <<requests_per_minute, tokens, last_refill, now, started>>

\* thread t calls wait_time (under the lock)
WaitTime(t) ==
    /\ Constructed
    /\ thread[t].pc = "idle"
    /\ thread[t].phase = "denied"
    /\ lock_free(lock)
    /\ thread' = [thread EXCEPT ![t].wait = wait_time(tokens, requests_per_minute),
                                ![t].phase = "read"]
    /\ UNCHANGED <<requests_per_minute, tokens, last_refill, now, lock, started, admitted,
                   denied>>

\* time.sleep(wait_time) by thread t
Sleep(t) ==
    /\ thread[t].pc = "idle"
    /\ thread[t].phase = "read"
    /\ now' = now + thread[t].wait
    /\ thread' = [thread EXCEPT ![t].phase = "slept"]
    /\ UNCHANGED <<requests_per_minute, tokens, last_refill, lock, started, admitted,
                   denied>>

\* time passes
Tick(d) ==
    /\ now + d <= MaxTime
    /\ now' = now + d
    /\ UNCHANGED <<requests_per_minute, tokens, last_refill, lock, thread, started,
                   admitted, denied>>

NextLimiter ==
    \/ \E rpm \in Capacities : NewLimiter(rpm) /\ UNCHANGED nonLimiterVars
    \/ \E t \in Threads : CallCanProceed(t) /\ UNCHANGED nonLimiterVars
    \/ \E t \in Threads : Acquire(t) /\ UNCHANGED nonLimiterVars
    \/ \E t \in Threads : Refill(t) /\ UNCHANGED nonLimiterVars
    \/ \E t \in Threads : Check(t) /\ UNCHANGED nonLimiterVars
    \/ \E t \in Threads : Consume(t) /\ UNCHANGED nonLimiterVars
    \/ \E t \in Threads : Release(t) /\ UNCHANGED nonLimiterVars
    \/ \E t \in Threads : WaitTime(t) /\ UNCHANGED nonLimiterVars
    \/ \E t \in Threads : Sleep(t) /\ UNCHANGED nonLimiterVars
    \/ \E d \in TickSeconds : Tick(d) /\ UNCHANGED nonLimiterVars

(***************************************************************************)
(* The dispatcher: EnhancedLLM.chat_with_rate_limiting, with self.chat the *)
(* provider's LLM.chat.  Its limiter is the bucket above, shared with      *)
(* other callers; without a bucket made, self.rate_limiter is None.        *)
(***************************************************************************)
\* the largest VULNHUNTR_MAX_RETRIES tried
MaxRetries == 4
\* VULNHUNTR_BASE_DELAY and VULNHUNTR_MAX_DELAY tried, in seconds: with 16
\* every backoff of the attempts modelled is whole seconds, and the 100
\* leaves the rate-limit backoffs uncapped
BaseDelays == {16}
MaxDelays == {60, 100}
\* what LLM.chat does in an attempt: it returns the validated response or
\* raises; "ValidationFailure" is the LLMError of _validate_response and
\* "Exception" any exception that is none of the others
Failures == {"RateLimitError", "APIConnectionError", "APIStatusError",
             "ValidationFailure", "Exception"}
Outcomes == {"response"} \cup Failures

RECURSIVE Pow(_, _)
Pow(b, e) == IF e = 0 THEN 1 ELSE b * Pow(b, e - 1)

\* a backoff that starts at base_delay
rate_limit_delay_from_base(base, maxd, a) == Min(base * Pow(2, a), maxd)

\* min(self.base_delay * (2 ** (attempt + 1)), self.max_delay)
rate_limit_delay(base, maxd, a) == Min(base * Pow(2, a + 1), maxd)

\* min(self.base_delay * (1.5 ** (attempt + 1)), self.max_delay)
api_error_delay(base, maxd, a) == Min((base * Pow(3, a + 1)) \div Pow(2, a + 1), maxd)

\* the default of VULNHUNTR_MAX_RETRIES
DefaultRetries == 3

\* the except clauses: what the dispatcher does with the exception caught in
\* attempt a of n
handle(kind, a, n, base, maxd) ==
    IF kind = "RateLimitError"
    THEN IF a < n - 1 THEN [do |-> "sleep", why |-> "rate_limit",
                            delay |-> rate_limit_delay(base, maxd, a)]
         ELSE [do |-> "raise"]
    ELSE IF kind \in {"APIConnectionError", "APIStatusError"}
    THEN IF a < n - 1 THEN [do |-> "sleep", why |-> "api_error",
                            delay |-> api_error_delay(base, maxd, a)]
         ELSE [do |-> "raise"]
    ELSE IF a = 0
         THEN [do |-> "sleep", why |-> "unexpected", delay |-> base]
         ELSE [do |-> "raise"]

InitDispatch ==
    /\ max_retries = 0
    /\ base_delay = 0
    /\ max_delay = 0
    /\ attempt = 0
    /\ dpc = "idle"
    /\ reply = None
    /\ sends = 0
    /\ failures = << >>
    /\ sleeps = << >>

\* range(max_retries) is exhausted: the function falls off its end and
\* returns None
loop_end(a, n) == a >= n

\* chat_with_rate_limiting is called on an EnhancedLLM configured with
\* n retries and the two delays
StartDispatch(n, base, maxd) ==
    /\ dpc = "idle"
    /\ max_retries' = n
    /\ base_delay' = base
    /\ max_delay' = maxd
    /\ attempt' = 0
    /\ dpc' = IF loop_end(0, n) THEN "returned" ELSE "attempt"
    /\ UNCHANGED <<reply, sends, failures, sleeps, limiterVars>>

\* the exception kind is caught in the current attempt
Caught(kind) ==
    LET h == handle(kind, attempt, max_retries, base_delay, max_delay)
    IN /\ failures' = Append(failures, kind)
       /\ IF h.do = "raise"
          THEN /\ dpc' = "raised"
               /\ reply' = [raised |-> kind, attempt |-> attempt]
               /\ UNCHANGED <<attempt, sleeps, now>>
          ELSE /\ sleeps' = Append(sleeps, [why |-> h.why, delay |-> h.delay])
               /\ now' = now + h.delay
               /\ attempt' = attempt + 1
               /\ dpc' = IF loop_end(attempt + 1, max_retries) THEN "returned"
                          ELSE "attempt"
               /\ UNCHANGED reply

\* the start of an attempt: without a limiter, or admitted by can_proceed,
\* the model is called next; denied, the dispatcher goes on to ask wait_time
Admit ==
    /\ dpc = "attempt"
    /\ IF ~Constructed
       THEN /\ dpc' = "chat"
            /\ UNCHANGED <<tokens, last_refill>>
       ELSE LET t == refill(tokens, now - last_refill, requests_per_minute)
            IN /\ last_refill' = now
               /\ IF has_token(t)
                  THEN /\ tokens' = t - Minute
                       /\ dpc' = "chat"
                  ELSE /\ tokens' = t
                       /\ dpc' = "denied"
    /\ UNCHANGED <<max_retries, base_delay, max_delay, attempt, reply, sends, failures,
                   sleeps, requests_per_minute, now, lock, thread, started, admitted,
                   denied>>

\* after a denial: wait_time() is read from the bucket as it is by then; a
\* positive time is slept and the bucket checked again, with 0 the model is
\* called next
WaitAndSleep ==
    /\ dpc = "denied"
    /\ IF wait_time(tokens, requests_per_minute) > 0
       THEN /\ sleeps' = Append(sleeps,
                   [why |-> "limiter", delay |-> wait_time(tokens, requests_per_minute)])
            /\ now' = now + wait_time(tokens, requests_per_minute)
            /\ dpc' = "recheck"
       ELSE /\ dpc' = "chat"
            /\ UNCHANGED <<now, sleeps>>
    /\ UNCHANGED <<max_retries, base_delay, max_delay, attempt, reply, sends, failures,
                   requests_per_minute, tokens, last_refill, lock, thread, started,
                   admitted, denied>>

\* after the sleep: can_proceed again; denied again, RateLimitError is raised
\* inside the try
Recheck ==
    /\ dpc = "recheck"
    /\ LET t == refill(tokens, now - last_refill, requests_per_minute)
       IN IF has_token(t)
          THEN /\ tokens' = t - Minute
               /\ last_refill' = now
               /\ dpc' = "chat"
               /\ UNCHANGED <<attempt, reply, failures, sleeps, now>>
          ELSE /\ tokens' = t
               /\ last_refill' = now
               /\ Caught("RateLimitError")
    /\ UNCHANGED <<max_retries, base_delay, max_delay, sends,
                   requests_per_minute, lock, thread, started, admitted, denied>>

\* return self.chat(...): one send_message, then the response or an exception
Chat(outcome) ==
    /\ dpc = "chat"
    /\ sends' = sends + 1
    /\ IF outcome = "response"
       THEN /\ dpc' = "returned"
            /\ reply' = [response |-> TRUE, attempt |-> attempt]
            /\ UNCHANGED <<attempt, failures, sleeps, now>>
       ELSE Caught(outcome)
    /\ UNCHANGED <<max_retries, base_delay, max_delay, requests_per_minute, tokens,
                   last_refill, lock, thread, started, admitted, denied>>

\* the seconds the calling thread may be held up between can_proceed and
\* wait_time while other threads run
Stalls == {40}

\* another caller of the same bucket: one can_proceed
OtherCaller ==
    /\ Constructed
    /\ dpc \in {"attempt", "denied", "recheck"}
    /\ started < MaxCalls
    /\ started' = started + 1
    /\ LET t == refill(tokens, now - last_refill, requests_per_minute)
       IN /\ last_refill' = now
          /\ tokens' = IF has_token(t) THEN t - Minute ELSE t
    /\ UNCHANGED <<requests_per_minute, now, lock, thread, admitted, denied, dispatchVars>>

NextDispatch ==
    \/ \E rpm \in Capacities :
          dpc = "idle" /\ NewLimiter(rpm) /\ UNCHANGED nonLimiterVars
    \/ \E n \in 0..MaxRetries, base \in BaseDelays, maxd \in MaxDelays :
          StartDispatch(n, base, maxd) /\ UNCHANGED nonDispatchVars
    \/ Admit /\ UNCHANGED nonDispatchVars
    \/ WaitAndSleep /\ UNCHANGED nonDispatchVars
    \/ Recheck /\ UNCHANGED nonDispatchVars
    \/ \E outcome \in Outcomes : Chat(outcome) /\ UNCHANGED nonDispatchVars
    \/ OtherCaller /\ UNCHANGED nonDispatchVars
    \/ \E d \in Stalls : dpc = "denied" /\ Tick(d) /\ UNCHANGED nonLimiterVars

(***************************************************************************)
(* The state file, step by step.  _save_state writes the document to a     *)
(* temporary file and renames it over the state file; the process may be   *)
(* killed, or the write may fail, between any two steps.  _load_state      *)
(* parses the state file when a manager is constructed.                    *)
(***************************************************************************)
\* a file whose write was cut short: empty, or a prefix of a document
Partial == [partial |-> TRUE]
\* what damage leaves in the state file: text that is no JSON document
\* ("invalid json content {" in the tests), or bytes that are no UTF-8 text
Damage == {"not_json", "not_utf8"}
Damaged(how) == [damaged |-> how]

\* the paths handed to the store by the operations of these specifications
SaveFiles == {"a"}
SaveResults == {[vuln |-> Enum("RCE"), confidence |-> 9]}

\* the file _save_state writes the document to: "state" is the state file
temp_file_in_place == "state"
temp_file == "tmp"

\* the content of the file at path p
content(p) == IF p = "state" THEN disk ELSE tmp
\* the write of content c to the file at path p
write(p, c) ==
    IF p = "state" THEN disk' = c /\ UNCHANGED tmp ELSE tmp' = c /\ UNCHANGED disk

\* what json.load makes of the content of a file that exists
json_load_raises(d) ==
    IF d = Partial \/ d = Damaged("not_json") THEN "JSONDecodeError"
    ELSE IF d = Damaged("not_utf8") THEN "UnicodeDecodeError"
    ELSE "no"

\* the exceptions the except clause of _load_state names
load_caught == {"JSONDecodeError", "IOError"}

InitFiles ==
    /\ tmp = NoFile
    /\ backup = NoFile
    /\ save_pc = "none"
    /\ manager = "up"

\* the states start_session, complete_session and fail_session lead to
SessionMutations(st) ==
    (IF Cardinality(DOMAIN st.sessions) < Len(SessionOrder)
     THEN {with_session(st, ScanFiles[generate_session_id(st)])} ELSE {})
    \cup {with_status(st, sid, status) :
             sid \in DOMAIN st.sessions, status \in {"completed", "failed"}}

\* the states mark_file_completed and mark_file_failed lead to
MarkMutations(st, mt) ==
    {with_completed(st, mt, sid, f, r) :
        sid \in DOMAIN st.sessions, f \in SaveFiles, r \in SaveResults}
    \cup {with_failed(st, mt, sid, f, e) :
             sid \in DOMAIN st.sessions, f \in SaveFiles, e \in Errors}

\* a public operation updates self.state and enters _save_state
Mutate(st, mark) ==
    /\ manager = "up"
    /\ save_pc = "none"
    /\ mark => marks < MaxMarks
    /\ st # state
    /\ state' = st
    /\ marks' = IF mark THEN marks + 1 ELSE marks
    /\ save_pc' = "open"
    /\ UNCHANGED <<disk, mtime, marked, tmp, backup, manager>>

\* open(temp_file, 'w'): the file is created or truncated
OpenTemp ==
    /\ manager = "up"
    /\ save_pc = "open"
    /\ write(temp_file, Partial)
    /\ save_pc' = "write"
    /\ UNCHANGED <<state, mtime, marks, marked, backup, manager>>

\* json.dump and the close of the file: the whole document is in it
WriteTemp ==
    /\ manager = "up"
    /\ save_pc = "write"
    /\ write(temp_file, json_dump(state))
    /\ save_pc' = "replace"
    /\ UNCHANGED <<state, mtime, marks, marked, backup, manager>>

\* temp_file.replace(self.state_file): one rename
Replace ==
    /\ manager = "up"
    /\ save_pc = "replace"
    /\ disk' = content(temp_file)
    /\ tmp' = IF temp_file = "tmp" THEN NoFile ELSE tmp
    /\ save_pc' = "none"
    /\ UNCHANGED <<state, mtime, marks, marked, backup, manager>>

\* open, write or rename raises IOError: _save_state prints a warning and
\* returns, and so does the operation
SaveRaises ==
    /\ manager = "up"
    /\ save_pc # "none"
    /\ save_pc' = "none"
    /\ UNCHANGED <<state, disk, mtime, marks, marked, tmp, backup, manager>>

\* the process is killed, or the machine stops: memory is lost, files stay
Kill ==
    /\ manager = "up"
    /\ manager' = "down"
    /\ save_pc' = "none"
    /\ state' = EmptyState
    /\ UNCHANGED <<disk, mtime, marks, marked, tmp, backup>>

\* SimpleStateManager(): __init__ and _load_state
Construct ==
    /\ manager = "down"
    /\ LET raised == IF disk = NoFile THEN "no" ELSE json_load_raises(disk) IN
       IF raised = "no"
       THEN /\ state' = load_state(disk)
            /\ manager' = "up"
            /\ UNCHANGED <<disk, backup>>
       ELSE IF raised \in load_caught
       THEN /\ backup' = disk
            /\ disk' = NoFile
            /\ state' = EmptyState
            /\ manager' = "up"
       ELSE /\ manager' = "raised"
            /\ UNCHANGED <<state, disk, backup>>
    /\ UNCHANGED <<mtime, marks, marked, tmp, save_pc>>

\* the state file is damaged while no process has it open
Corrupt(how) ==
    /\ manager = "down"
    /\ disk \notin {NoFile, Damaged(how)}
    /\ disk' = Damaged(how)
    /\ UNCHANGED <<state, mtime, marks, marked, tmp, backup, save_pc, manager>>

restOfSave == <<loopVars, runVars, limiterVars, dispatchVars, batchVars, resolverVars, providerVars, resetVars, analyzeVars,
        extractVars>>

NextSave ==
    \/ \E st \in SessionMutations(state) : Mutate(st, FALSE) /\ UNCHANGED restOfSave
    \/ \E st \in MarkMutations(state, mtime) : Mutate(st, TRUE) /\ UNCHANGED restOfSave
    \/ OpenTemp /\ UNCHANGED restOfSave
    \/ WriteTemp /\ UNCHANGED restOfSave
    \/ Replace /\ UNCHANGED restOfSave
    \/ SaveRaises /\ UNCHANGED restOfSave
    \/ Kill /\ UNCHANGED restOfSave
    \/ Construct /\ UNCHANGED restOfSave

NextLoad ==
    \/ NextSave
    \/ \E how \in Damage : Corrupt(how) /\ UNCHANGED restOfSave

(***************************************************************************)
(* The enhanced orchestrator: enhanced_main.EnhancedVulnhuntr with the     *)
(* enhanced features on.  Each run_analysis is one process: it loads the   *)
(* state file, starts or resumes a session, processes its files and exits. *)
(* A write of the state file is one step here, and it may raise IOError,   *)
(* which _save_state swallows.                                             *)
(***************************************************************************)
\* run_analysis calls in one behaviour
MaxRuns == 3
\* the files a new analysis finds in the repository
BatchFiles == <<"a", "b", "c">>
\* what _analyze_file does: returns a report, returns None (an empty file),
\* raises, or is interrupted from the keyboard
Analyses == {"result", "none", "raises", "interrupt"}
BatchResults == {[vuln |-> Enum("RCE"), confidence |-> 9]}
\* str(e) of the AttributeError that py_f.open raises on a str
NoOpen == "'str' object has no attribute 'open'"

\* a str that opens as a Path does
analyze_file_any_path(entries_type, analysis) == analysis

\* _analyze_file(py_f, ...): with py_f.open(...) raises AttributeError on a
\* str, before anything is read or asked; only an interrupt comes first
analyze_file(entries_type, analysis) ==
    IF entries_type = "str" /\ analysis # "interrupt" THEN "raises" ELSE analysis
NoSession == ""

InitBatch ==
    /\ bpc = "idle"
    /\ self_session_id = NoSession
    /\ batch = << >>
    /\ pos = 1
    /\ processed_count = 0
    /\ failed_count = 0
    /\ exit_status = -1
    /\ outcomes = << >>
    /\ io_failed = FALSE
    /\ interrupted = ""
    /\ ended = ""
    /\ runs = 0
    /\ path_type = "Path"

\* _save_state at the end of a store operation: the write goes through, or
\* raises IOError and leaves the file as it was
SaveOrFail(ok) ==
    /\ disk' = IF ok THEN save_state(state') ELSE disk
    /\ io_failed' = (io_failed \/ ~ok)

\* success as the process reports it
exit_of(success) == IF success THEN 0 ELSE 1

\* return failed_count == 0
batch_success(failed) == failed = 0

\* run_analysis without resume_session: _run_new_analysis up to the loop
RunNewAnalysis(ok) ==
    /\ bpc = "idle"
    /\ runs < MaxRuns
    /\ Cardinality(DOMAIN state.sessions) < Len(SessionOrder)
    /\ runs' = runs + 1
    /\ self_session_id' = generate_session_id(state)
    /\ state' = with_session(state, BatchFiles)
    /\ SaveOrFail(ok)
    /\ batch' = BatchFiles
    /\ path_type' = "Path"
    /\ pos' = 1
    /\ bpc' = "loop"
    /\ UNCHANGED <<mtime, marks, marked, processed_count, failed_count, exit_status,
                   outcomes, interrupted, ended>>

\* run_analysis with resume_session: _resume_analysis up to the loop
ResumeAnalysis(session_id, ok) ==
    /\ bpc = "idle"
    /\ runs < MaxRuns
    /\ runs' = runs + 1
    /\ IF session_id \notin DOMAIN state.sessions
       THEN /\ bpc' = "returned"
            /\ ended' = "not_found"
            /\ exit_status' = exit_of(FALSE)
            /\ UNCHANGED <<state, disk, io_failed, self_session_id, batch, path_type>>
       ELSE IF state.sessions[session_id].status = "completed"
       THEN /\ bpc' = "returned"
            /\ ended' = "already_completed"
            /\ exit_status' = exit_of(TRUE)
            /\ UNCHANGED <<state, disk, io_failed, self_session_id, batch, path_type>>
       ELSE IF get_pending_files(state, mtime, session_id) = << >>
       THEN /\ state' = with_status(state, session_id, "completed")
            /\ SaveOrFail(ok)
            /\ bpc' = "returned"
            /\ ended' = "nothing_pending"
            /\ exit_status' = exit_of(TRUE)
            /\ UNCHANGED <<self_session_id, batch, path_type>>
       ELSE /\ self_session_id' = session_id
            /\ batch' = get_pending_files(state, mtime, session_id)
            /\ path_type' = "str"
            /\ bpc' = "loop"
            /\ UNCHANGED <<state, disk, io_failed, exit_status, ended>>
    /\ pos' = 1
    /\ UNCHANGED <<mtime, marks, marked, processed_count, failed_count, outcomes,
                   interrupted>>

\* one iteration of for py_f in files_to_analyze
ProcessFile(analysis, result, ok) ==
    /\ bpc = "loop"
    /\ pos <= Len(batch)
    /\ LET py_f == batch[pos] IN
       IF get_cached_result(state, mtime, py_f) # None
       THEN /\ outcomes' = Append(outcomes, "cached")
            /\ processed_count' = processed_count + 1
            /\ pos' = pos + 1
            /\ UNCHANGED <<state, disk, io_failed, failed_count, bpc, exit_status,
                           interrupted, ended>>
       ELSE IF is_file_failed(state, mtime, py_f)
       THEN /\ outcomes' = Append(outcomes, "skipped")
            /\ processed_count' = processed_count + 1
            /\ pos' = pos + 1
            /\ UNCHANGED <<state, disk, io_failed, failed_count, bpc, exit_status,
                           interrupted, ended>>
       ELSE IF analyze_file(path_type, analysis) = "result"
       THEN /\ state' = with_completed(state, mtime, self_session_id, py_f, result)
            /\ SaveOrFail(ok)
            /\ outcomes' = Append(outcomes, "completed")
            /\ processed_count' = processed_count + 1
            /\ pos' = pos + 1
            /\ UNCHANGED <<failed_count, bpc, exit_status, interrupted, ended>>
       ELSE IF analyze_file(path_type, analysis) = "none"
       THEN /\ outcomes' = Append(outcomes, "none")
            /\ pos' = pos + 1
            /\ UNCHANGED <<state, disk, io_failed, processed_count, failed_count, bpc,
                           exit_status, interrupted, ended>>
       ELSE IF analyze_file(path_type, analysis) = "raises"
       THEN /\ failed_count' = failed_count + 1
            /\ state' = with_failed(state, mtime, self_session_id, py_f,
                                    IF path_type = "str" THEN NoOpen
                                    ELSE "Analysis timeout")
            /\ SaveOrFail(ok)
            /\ outcomes' = Append(outcomes, "raised")
            /\ pos' = pos + 1
            /\ UNCHANGED <<processed_count, bpc, exit_status, interrupted, ended>>
       ELSE /\ interrupted' = py_f
            /\ bpc' = "returned"
            /\ ended' = "interrupt"
            /\ exit_status' = exit_of(FALSE)
            /\ UNCHANGED <<state, disk, io_failed, processed_count, failed_count,
                           outcomes, pos>>
    /\ UNCHANGED <<mtime, marks, marked, self_session_id, batch, runs, path_type>>

\* the end of the loop: complete_session and return failed_count == 0
FinishBatch(ok) ==
    /\ bpc = "loop"
    /\ pos > Len(batch)
    /\ state' = with_status(state, self_session_id, "completed")
    /\ SaveOrFail(ok)
    /\ bpc' = "returned"
    /\ ended' = "end"
    /\ exit_status' = exit_of(batch_success(failed_count))
    /\ UNCHANGED <<mtime, marks, marked, self_session_id, batch, pos, processed_count,
                   failed_count, outcomes, interrupted, runs, path_type>>

\* the process has exited; the next one constructs its manager on the file
NewProcess ==
    /\ bpc = "returned"
    /\ runs < MaxRuns
    /\ state' = load_state(disk)
    /\ bpc' = "idle"
    /\ self_session_id' = NoSession
    /\ batch' = << >>
    /\ pos' = 1
    /\ processed_count' = 0
    /\ failed_count' = 0
    /\ exit_status' = -1
    /\ outcomes' = << >>
    /\ io_failed' = FALSE
    /\ interrupted' = ""
    /\ ended' = ""
    /\ path_type' = "Path"
    /\ UNCHANGED <<disk, mtime, marks, marked, runs>>

restOfBatch == <<loopVars, runVars, limiterVars, dispatchVars, fileVars, resolverVars, providerVars, resetVars, analyzeVars,
        extractVars>>

NextBatch ==
    \/ \E ok \in BOOLEAN : RunNewAnalysis(ok) /\ UNCHANGED restOfBatch
    \/ \E sid \in SessionArgs, ok \in BOOLEAN :
          ResumeAnalysis(sid, ok) /\ UNCHANGED restOfBatch
    \/ \E analysis \in Analyses, r \in BatchResults, ok \in BOOLEAN :
          ProcessFile(analysis, r, ok) /\ UNCHANGED restOfBatch
    \/ \E ok \in BOOLEAN : FinishBatch(ok) /\ UNCHANGED restOfBatch
    \/ NewProcess /\ UNCHANGED restOfBatch
    \/ \E f \in Files, m \in Mtimes : bpc = "idle" /\ EditFile(f, m)

(***************************************************************************)
(* The Resolver's source extraction: SymbolExtractor._create_match_obj and *)
(* _get_definition_source.  A text is a sequence of characters, a file a   *)
(* sequence of lines as readlines() returns them, each with its newline    *)
(* but possibly the last.  Lines count from 1 and columns from 0, as the   *)
(* index reports them.                                                     *)
(***************************************************************************)
\* the files definitions are located in
ModuleFiles ==
    { << <<"a", "b", "\n">>, <<"c", "\n">>, <<"d", "e", "f">> >>,
      << <<"x", "\n">>, <<"\n">>, <<"y", "z", "\n">> >>,
      << <<"p", "q", "r", "\n">>, <<"s", "t", "\n">> >> }
Origins == {"repo", "third_party"}
\* a position the index does not know (None)
NoPos == << >>
\* the text returned for an empty slice, and the one for a third-party name
NoneText == <<"N", "o", "n", "e">>
ThirdPartyText == <<"T", "h", "i", "r", "d", " ", "p", "a", "r", "t", "y">>
Unset == <<"?">>

\* the characters of a line before its newline
ContentLen(line) ==
    IF line # << >> /\ line[Len(line)] = "\n" THEN Len(line) - 1 ELSE Len(line)

\* the positions of a file: a line and a column within its content
\* ''.join(lines)
RECURSIVE Join(_)
Join(lines) == IF lines = << >> THEN << >> ELSE Head(lines) \o Join(Tail(lines))

Positions(lines) ==
    {p \in (1..Len(lines)) \X (0..Len(Join(lines))) : p[2] <= ContentLen(lines[p[1]])}

Before(p, q) == p[1] < q[1] \/ (p[1] = q[1] /\ p[2] < q[2])

\* s[lo:hi] for lo, hi >= 0
PySlice(s, lo, hi) ==
    IF lo >= Min(hi, Len(s)) THEN << >> ELSE SubSeq(s, lo + 1, Min(hi, Len(s)))

\* s[lo:-d] for lo >= 0 and d > 0
PySliceFromEnd(s, lo, d) == PySlice(s, lo, IF Len(s) - d > 0 THEN Len(s) - d ELSE 0)

\* the difference taken on the first line of the definition
end_len_diff_first_line(definition, end) == Len(definition[1]) - end[2]

\* end_len_diff = len(definition[-1]) - end[1]
end_len_diff(definition, end) == Len(definition[Len(definition)]) - end[2]

\* _get_definition_source(file_path, start, end)
get_definition_source(lines, start, end) ==
    IF start = NoPos /\ end = NoPos
    THEN Join(lines)
    ELSE LET definition == SubSeq(lines, start[1], end[1])
             diff == end_len_diff(definition, end)
             text == IF diff > 0
                     THEN PySliceFromEnd(Join(definition), start[2], diff)
                     ELSE PySlice(Join(definition), start[2], Len(Join(definition)))
         IN IF text = << >> THEN NoneText ELSE text

InitResolver ==
    /\ module_lines = << >>
    /\ module_origin = "repo"
    /\ def_start = NoPos
    /\ def_end = NoPos
    /\ match_source = Unset
    /\ rpc = "idle"

\* the index reports a definition: its file and its start and end positions
Locate(lines, origin, start, end) ==
    /\ rpc \in {"idle", "extracted"}
    /\ \/ start = NoPos /\ end = NoPos
       \/ /\ start \in Positions(lines)
          /\ end \in Positions(lines)
          /\ Before(start, end)
    /\ module_lines' = lines
    /\ module_origin' = origin
    /\ def_start' = start
    /\ def_end' = end
    /\ match_source' = Unset
    /\ rpc' = "located"

\* _create_match_obj: the source of the match
CreateMatchObj ==
    /\ rpc = "located"
    /\ match_source' =
          IF module_origin = "third_party" THEN ThirdPartyText
          ELSE get_definition_source(module_lines, def_start, def_end)
    /\ rpc' = "extracted"
    /\ UNCHANGED <<module_lines, module_origin, def_start, def_end>>

restOfResolver == <<storeVars, loopVars, runVars, limiterVars, dispatchVars, fileVars,
                    batchVars, providerVars, resetVars, analyzeVars,
        extractVars>>

NextResolver ==
    \/ \E lines \in ModuleFiles, origin \in Origins :
          \E start \in {NoPos} \cup Positions(lines), end \in {NoPos} \cup Positions(lines) :
             Locate(lines, origin, start, end) /\ UNCHANGED restOfResolver
    \/ CreateMatchObj /\ UNCHANGED restOfResolver

(***************************************************************************)
(* chat on an enhanced provider: class Claude(EnhancedLLM, OriginalClaude) *)
(* of enhanced_providers (ChatGPT, OpenRouter and Ollama are written the   *)
(* same way).  A method called on self is looked up along the class's      *)
(* method resolution order.  The limiter is taken by its answers: an       *)
(* attempt is admitted, at the first check or at the re-check, or denied   *)
(* twice.                                                                  *)
(***************************************************************************)
\* frames of chat_with_rate_limiting the interpreter's recursion limit allows
MaxDepth == 3
\* the method resolution order of enhanced_providers.Claude
Mro == <<"Claude", "EnhancedLLM", "OriginalClaude", "LLM">>
\* the methods each class defines
Methods ==
    [Claude |-> {"__init__", "chat", "chat_original"},
     EnhancedLLM |-> {"__init__", "chat_with_rate_limiting", "get_rate_limiter_status",
                      "reset_rate_limiter"},
     OriginalClaude |-> {"__init__", "create_messages", "send_message", "get_response"},
     LLM |-> {"__init__", "chat", "_validate_response", "_add_to_history", "_log_response"}]

\* self.<name>: the first class of the resolution order that defines it
resolve(name) ==
    Mro[CHOOSE k \in 1..Len(Mro) :
           /\ name \in Methods[Mro[k]]
           /\ \A j \in 1..(k - 1) : name \notin Methods[Mro[j]]]

Admissions == {"admitted", "denied_twice"}

InitProvider ==
    /\ stack = << >>
    /\ raising = ""
    /\ ppc = "idle"
    /\ entries = 0
    /\ tries = 0
    /\ consumed = 0
    /\ provider_sends = 0

\* the frame on top of the stack moves to attempt a
TopAt(a) == [stack EXCEPT ![Len(stack)] = a]
Pop == SubSeq(stack, 1, Len(stack) - 1)

\* Claude.chat: return self.chat_with_rate_limiting(...)
CallChat ==
    /\ ppc = "idle"
    /\ ppc' = "running"
    /\ stack' = <<0>>
    /\ entries' = 1
    /\ UNCHANGED <<raising, tries, consumed, provider_sends>>

\* one attempt of the innermost frame, up to what self.chat(...) does
ProviderAttempt(admission) ==
    /\ ppc = "running"
    /\ raising = ""
    /\ stack # << >>
    /\ tries' = tries + 1
    /\ IF admission = "denied_twice"
       THEN /\ raising' = "RateLimitError"
            /\ UNCHANGED <<stack, ppc, entries, consumed, provider_sends>>
       ELSE /\ consumed' = consumed + 1
            /\ IF resolve("chat") = "Claude"
               THEN IF Len(stack) < MaxDepth
                    THEN /\ stack' = Append(stack, 0)
                         /\ entries' = entries + 1
                         /\ UNCHANGED <<raising, ppc, provider_sends>>
                    ELSE /\ raising' = "RecursionError"
                         /\ UNCHANGED <<stack, ppc, entries, provider_sends>>
               ELSE /\ provider_sends' = provider_sends + 1
                    /\ stack' = << >>
                    /\ ppc' = "returned"
                    /\ UNCHANGED <<raising, entries>>

\* the except clauses of the innermost frame meet the exception
ProviderCaught ==
    /\ ppc = "running"
    /\ raising # ""
    /\ LET a == stack[Len(stack)]
           todo == handle(IF raising = "RateLimitError" THEN "RateLimitError" ELSE "Exception",
                          a, DefaultRetries, 0, 0)
       IN IF todo.do = "sleep"
          THEN /\ stack' = TopAt(a + 1)
               /\ raising' = ""
               /\ ppc' = "running"
          ELSE /\ stack' = Pop
               /\ raising' = raising
               /\ ppc' = IF Len(stack) = 1 THEN "raised" ELSE "running"
    /\ UNCHANGED <<entries, tries, consumed, provider_sends>>

restOfProvider == <<storeVars, loopVars, runVars, limiterVars, dispatchVars, fileVars,
                    batchVars, resolverVars, resetVars, analyzeVars,
        extractVars>>

NextProvider ==
    \/ CallChat /\ UNCHANGED restOfProvider
    \/ \E admission \in Admissions : ProviderAttempt(admission) /\ UNCHANGED restOfProvider
    \/ ProviderCaught /\ UNCHANGED restOfProvider

(***************************************************************************)
(* EnhancedLLM.reset_rate_limiter, called by a thread of its own while     *)
(* other threads are in can_proceed: two assignments to the bucket's       *)
(* fields, made without taking the bucket's lock.                          *)
(***************************************************************************)
InitReset == reset_pc = "idle"

\* self.rate_limiter.tokens = float(self.rate_limiter.requests_per_minute)
ResetTokens ==
    /\ Constructed
    /\ reset_pc = "idle"
    /\ tokens' = requests_per_minute * Minute
    /\ reset_pc' = "tokens_set"
    /\ UNCHANGED <<requests_per_minute, last_refill, now, lock, thread, started, admitted,
                   denied>>

\* self.rate_limiter.last_refill = time.time()
ResetLastRefill ==
    /\ reset_pc = "tokens_set"
    /\ last_refill' = now
    /\ reset_pc' = "idle"
    /\ UNCHANGED <<requests_per_minute, tokens, now, lock, thread, started, admitted,
                   denied>>

restOfReset == <<storeVars, loopVars, runVars, dispatchVars, fileVars, batchVars,
                 resolverVars, providerVars, analyzeVars,
        extractVars>>

NextReset ==
    \/ NextLimiter
    \/ ResetTokens /\ UNCHANGED restOfReset
    \/ ResetLastRefill /\ UNCHANGED restOfReset

(***************************************************************************)
(* The resumable orchestrator's analysis of one file:                      *)
(* EnhancedVulnhuntr._analyze_file.  llm.chat is taken by what it returns  *)
(* or raises.  The method has no call of the Resolver: every category gets *)
(* one model call on the file's own source.                                *)
(***************************************************************************)
\* the confidence scores of the reports
AnalyzeConfidences == {0, 5, 8}
NoAnalysis == [confidence |-> -1, origin |-> -1]

\* a gate that looks at the categories only
secondary_gate_any_confidence(score, categories) == Len(categories) > 0

\* if initial_analysis_report.confidence_score > 0 and len(...vulnerability_types)
secondary_gate(score, categories) == score > 0 /\ Len(categories) > 0

\* a report that replaces the retained one at equal confidence
higher_or_equal(score, retained) == score >= retained

\* if secondary_analysis_report.confidence_score > initial_analysis_report.confidence_score
higher(score, retained) == score > retained

InitAnalyze ==
    /\ apc = "idle"
    /\ initial_analysis_report = NoAnalysis
    /\ first_report = [confidence |-> -1, categories |-> << >>]
    /\ category_index = 1
    /\ chat_calls = 0
    /\ category_reports = << >>
    /\ analysis_result = NoAnalysis

\* the file is read; an empty file returns None, else the initial analysis
\* is one llm.chat, whose report decides whether the categories are analysed
AnalyzeFile(empty, score, categories) ==
    /\ apc = "idle"
    /\ IF empty
       THEN /\ apc' = "returned"
            /\ UNCHANGED <<initial_analysis_report, first_report, chat_calls>>
       ELSE /\ chat_calls' = 1
            /\ first_report' = [confidence |-> score, categories |-> categories]
            /\ initial_analysis_report' = [confidence |-> score, origin |-> 0]
            /\ apc' = IF secondary_gate(score, categories) THEN "categories"
                      ELSE "returned"
    /\ analysis_result' =
          IF ~empty /\ ~secondary_gate(score, categories)
          THEN [confidence |-> score, origin |-> 0] ELSE NoAnalysis
    /\ UNCHANGED <<category_index, category_reports>>

\* the initial llm.chat raises: _analyze_file raises
AnalyzeRaises ==
    /\ apc = "idle"
    /\ chat_calls' = 1
    /\ apc' = "raised"
    /\ UNCHANGED <<initial_analysis_report, first_report, category_index,
                   category_reports, analysis_result>>

\* for vuln_type in ...: one llm.chat; its report is retained if its
\* confidence is higher; a call that raises is passed over
AnalyzeCategory(raises, score) ==
    /\ apc = "categories"
    /\ category_index <= Len(first_report.categories)
    /\ chat_calls' = chat_calls + 1
    /\ category_reports' = Append(category_reports, IF raises THEN -1 ELSE score)
    /\ initial_analysis_report' =
          IF ~raises /\ higher(score, initial_analysis_report.confidence)
          THEN [confidence |-> score, origin |-> category_index]
          ELSE initial_analysis_report
    /\ category_index' = category_index + 1
    /\ UNCHANGED <<apc, first_report, analysis_result>>

\* return initial_analysis_report
AnalyzeReturn ==
    /\ apc = "categories"
    /\ category_index > Len(first_report.categories)
    /\ apc' = "returned"
    /\ analysis_result' = initial_analysis_report
    /\ UNCHANGED <<initial_analysis_report, first_report, category_index, chat_calls,
                   category_reports>>

restOfAnalyze == <<storeVars, loopVars, runVars, limiterVars, dispatchVars, fileVars,
                   batchVars, resolverVars, providerVars, resetVars,
        extractVars>>

NextAnalyze ==
    \/ \E empty \in BOOLEAN, score \in AnalyzeConfidences, categories \in CategoryLists :
          AnalyzeFile(empty, score, categories) /\ UNCHANGED restOfAnalyze
    \/ AnalyzeRaises /\ UNCHANGED restOfAnalyze
    \/ \E raises \in BOOLEAN, score \in AnalyzeConfidences :
          AnalyzeCategory(raises, score) /\ UNCHANGED restOfAnalyze
    \/ AnalyzeReturn /\ UNCHANGED restOfAnalyze

\* the file goes to one orchestrator or to the other
NextEither ==
    \/ apc = "idle" /\ NextLoop
    \/ pc = "initial" /\ NextAnalyze

(***************************************************************************)
(* The Resolver's cascade: SymbolExtractor.extract and its strategies.     *)
(* A string is a sequence of characters.  What jedi answers to a search    *)
(* is an input: a list of names, each with the attributes the code reads.  *)
(***************************************************************************)
\* s.endswith(suffix)
EndsWith(s, suffix) ==
    /\ Len(suffix) <= Len(s)
    /\ SubSeq(s, Len(s) - Len(suffix) + 1, Len(s)) = suffix

\* s.split('.')
RECURSIVE Split(_)
Split(s) ==
    IF \A k \in 1..Len(s) : s[k] # "."
    THEN <<s>>
    ELSE LET dot == CHOOSE k \in 1..Len(s) : s[k] = "." /\ \A j \in 1..(k - 1) : s[j] # "."
         IN  <<SubSeq(s, 1, dot - 1)>> \o Split(SubSeq(s, dot + 1, Len(s)))

\* the names the model asks for
SymbolNames == {<<"b">>, <<"a", ".", "b">>}
\* name.full_name of the names jedi knows; the empty one stands for None
FullNames == {<<"p", ".", "b">>, <<"p", ".", "x", "b">>, <<"p", ".", "a", ".", "b">>}
\* name.name of a name that has no full_name
SimpleNames == {<<"b">>, <<"x", "b">>}
NameTypes == {"statement", "function", "instance", "module"}

\* a jedi Name: name.type, name.name, name.full_name, whether its module
\* path is excluded, whether the requested name is in name.description, what
\* name.infer() gives first ("none" for an empty list), whether name.goto()
\* gives anything, and whether the code line is in the description of the
\* name, of its inferred target, or of neither
JediNames ==
    LET described == [type : NameTypes, excluded : BOOLEAN, described : BOOLEAN,
                      inferred : {"none", "function", "instance"}, goes : BOOLEAN,
                      line : {"no", "name", "inferred"}]
        named == {[name |-> Split(fn)[Len(Split(fn))], full_name |-> fn] : fn \in FullNames}
                 \cup {[name |-> sn, full_name |-> << >>] : sn \in SimpleNames}
    IN  {[type |-> d.type, excluded |-> d.excluded, described |-> d.described,
          inferred |-> d.inferred, goes |-> d.goes, line |-> d.line,
          name |-> n.name, full_name |-> n.full_name] : d \in described, n \in named}

\* what one search of jedi answers: no name or one
SearchResults == {<< >>} \cup {<<n>> : n \in JediNames}

NoMatch == [strategy |-> "none"]
Strategies == <<"file_search", "project_search", "all_names_search", "fallback">>

\* the test of a function or class in file_search and project_search
named_as(symbol, name) ==
    \/ symbol = name.name
    \/ EndsWith(symbol, <<".">> \o name.name)
    \/ name.described

\* file_search: whether this name of script.search gives the match
file_hit(symbol, name) ==
    /\ ~name.excluded
    /\ CASE name.type = "statement" -> name.described
         [] name.type = "function" -> named_as(symbol, name) /\ name.inferred # "none"
         [] name.type = "instance" ->
                \/ name.inferred = "function"
                \/ name.inferred = "instance" /\ name.goes
         [] name.type = "module" -> name.name = symbol

\* project_search: whether this name of project.search gives the match
project_hit(symbol, name) ==
    CASE name.type = "statement" -> name.described
      [] name.type = "function" -> named_as(symbol, name) /\ name.inferred # "none"
      [] name.type = "instance" -> name.inferred # "none"
      [] name.type = "module" -> name.name = symbol

\* all_names_search, first loop: whether this name of script.get_names
\* gives the match
all_names_hit(symbol, name) ==
    /\ name.type \in {"function", "instance"}
    /\ IF name.full_name # << >>
       THEN EndsWith(name.full_name, symbol)
       ELSE name.name = Split(symbol)[Len(Split(symbol))]
    /\ name.inferred # "none"

\* all_names_search, second loop: the code line in the description of the
\* name or of what it infers to
fallback_hit(symbol, name) ==
    \/ name.line = "name"
    \/ name.line = "inferred" /\ name.inferred # "none"

strategy_hit(strategy, symbol, name) ==
    CASE strategy = "file_search" -> file_hit(symbol, name)
      [] strategy = "project_search" -> project_hit(symbol, name)
      [] strategy = "all_names_search" -> all_names_hit(symbol, name)
      [] strategy = "fallback" -> fallback_hit(symbol, name)

\* for name in res: the first name that hits gives the match
RECURSIVE search(_, _, _)
search(strategy, symbol, res) ==
    IF res = << >> THEN NoMatch
    ELSE IF strategy_hit(strategy, symbol, Head(res))
         THEN [strategy |-> strategy, via |-> Head(res)]
         ELSE search(strategy, symbol, Tail(res))

\* a cascade that goes on to the next strategy whatever was found
after_any(found, next) == next

\* if match: return match
after(found, next) == IF found # NoMatch THEN "returned" ELSE next

InitExtract ==
    /\ xpc = "idle"
    /\ symbol_name = << >>
    /\ scripts = FALSE
    /\ consulted = << >>
    /\ extract_result = NoMatch

\* extract is called; the files are searched for the code line
Extract(symbol, matching_files) ==
    /\ xpc = "idle"
    /\ symbol_name' = symbol
    /\ scripts' = matching_files
    /\ xpc' = "file_search"
    /\ UNCHANGED <<consulted, extract_result>>

\* match = self.file_search(symbol_name, scripts); if match: return match
FileSearch(res) ==
    /\ xpc = "file_search"
    /\ scripts \/ res = << >>
    /\ LET found == search("file_search", symbol_name, res)
       IN  /\ consulted' = Append(consulted, [strategy |-> "file_search",
                                              hit |-> found # NoMatch])
           /\ xpc' = after(found, "project_search")
           /\ extract_result' = found
    /\ UNCHANGED <<symbol_name, scripts>>

\* match = self.project_search(symbol_name); if match: return match
ProjectSearch(res) ==
    /\ xpc = "project_search"
    /\ LET found == search("project_search", symbol_name, res)
       IN  /\ consulted' = Append(consulted, [strategy |-> "project_search",
                                              hit |-> found # NoMatch])
           /\ xpc' = after(found, "all_names_search")
           /\ extract_result' = found
    /\ UNCHANGED <<symbol_name, scripts>>

\* all_names_search, first loop over script.get_names
AllNamesSearch(res) ==
    /\ xpc = "all_names_search"
    /\ scripts \/ res = << >>
    /\ LET found == search("all_names_search", symbol_name, res)
       IN  /\ consulted' = Append(consulted, [strategy |-> "all_names_search",
                                              hit |-> found # NoMatch])
           /\ xpc' = after(found, "fallback")
           /\ extract_result' = found
    /\ UNCHANGED <<symbol_name, scripts>>

\* all_names_search, second loop; what it gives is what extract returns
FallbackSearch(res) ==
    /\ xpc = "fallback"
    /\ scripts \/ res = << >>
    /\ LET found == search("fallback", symbol_name, res)
       IN  /\ consulted' = Append(consulted, [strategy |-> "fallback",
                                              hit |-> found # NoMatch])
           /\ xpc' = "returned"
           /\ extract_result' = found
    /\ UNCHANGED <<symbol_name, scripts>>

restOfExtract == <<storeVars, loopVars, runVars, limiterVars, dispatchVars, fileVars,
                   batchVars, resolverVars, providerVars, resetVars, analyzeVars>>

NextExtract ==
    \/ \E symbol \in SymbolNames, matching_files \in BOOLEAN :
          Extract(symbol, matching_files) /\ UNCHANGED restOfExtract
    \/ \E res \in SearchResults : FileSearch(res) /\ UNCHANGED restOfExtract
    \/ \E res \in SearchResults : ProjectSearch(res) /\ UNCHANGED restOfExtract
    \/ \E res \in SearchResults : AllNamesSearch(res) /\ UNCHANGED restOfExtract
    \/ \E res \in SearchResults : FallbackSearch(res) /\ UNCHANGED restOfExtract

vars == <<state, disk, mtime, marks, marked, pc, vulnerability_types, vuln_type, i,
          stored_code_definitions, same_context, previous_context_amount,
          secondary_analysis_report, calls, extracts, no_growth_rounds, ended_by,
          files_to_analyze, resolver_log, requests_per_minute, tokens, last_refill, now,
          lock, thread, started, admitted, denied, max_retries, base_delay, max_delay,
          attempt, dpc, reply, sends, failures, sleeps, tmp, backup, save_pc, manager, bpc, self_session_id,
          batch, pos, processed_count, failed_count, exit_status, outcomes, io_failed,
          interrupted, ended, runs, path_type, module_lines, module_origin, def_start, def_end,
          match_source, rpc, stack, raising, ppc, entries, tries, consumed,
          provider_sends, reset_pc, apc, initial_analysis_report, first_report,
          category_index, chat_calls, category_reports, analysis_result, xpc,
          symbol_name, scripts, consulted, extract_result>>

Init == InitStore /\ InitLoop /\ InitRun /\ InitLimiter /\ InitDispatch /\ InitFiles
        /\ InitBatch /\ InitResolver /\ InitProvider /\ InitReset
        /\ InitAnalyze /\ InitExtract

\* the session state store
Spec == Init /\ [][NextStore]_vars

\* the reference analysis of one file
SpecLoop == Init /\ [][NextLoop]_vars

\* the reference run over its files
SpecRun == Init /\ [][NextRun]_vars

\* the rate limiter under concurrent callers
SpecLimiter == Init /\ [][NextLimiter]_vars

\* one dispatch of a model call
SpecDispatch == Init /\ [][NextDispatch]_vars

\* the state file under saves that stop at any step
SpecSave == Init /\ [][NextSave]_vars

\* the state file under saves and damage, and the managers constructed on it
SpecLoad == Init /\ [][NextLoad]_vars

\* runs of the enhanced orchestrator, one process after the other
SpecBatch == Init /\ [][NextBatch]_vars

\* the Resolver's source extraction on the definitions the index reports
SpecSlice == Init /\ [][NextResolver]_vars

\* chat called on an enhanced provider
SpecProvider == Init /\ [][NextProvider]_vars

\* the rate limiter under concurrent callers and reset_rate_limiter
SpecReset == Init /\ [][NextReset]_vars

\* one file analysed by either orchestrator, the reference or the resumable
SpecAnalyze == Init /\ [][NextEither]_vars

\* one call of the Resolver: SymbolExtractor.extract
SpecExtract == Init /\ [][NextExtract]_vars

TypeOK ==
    /\ DOMAIN state.sessions \subseteq SessionIds
    /\ DOMAIN state.completed_files \subseteq Fingerprints
    /\ marks \in 0..MaxMarks
(***************************************************************************)
(* The claims about the session state store, checked under Spec.           *)
(***************************************************************************)
\* the fingerprint of f as the glossary defines it: its path and its current
\* modification time (the path alone for a file that does not exist)
CurrentFingerprint(f) == IF mtime[f] # 0 THEN <<f, mtime[f]>> ELSE <<f>>

RECURSIVE SumOver(_, _)
SumOver(S, g) ==
    IF S = {} THEN 0
    ELSE LET x == CHOOSE y \in S : TRUE IN g[x] + SumOver(S \ {x}, g)

\* mark_file_* calls that named session sid
MarksOfSession(sid) ==
    SumOver({k \in DOMAIN marked : k[1] = sid}, marked)
\* mark_file_* calls that named session sid and path f
MarksOfFile(sid, f) ==
    SumOver({k \in DOMAIN marked : k[1] = sid /\ k[2][1] = f}, marked)
\* mark_file_* calls of one kind made for fingerprint fp
WritesOf(fp, kind) ==
    SumOver({k \in DOMAIN marked : k[2] = fp /\ k[3] = kind}, marked)

\* two stored records are the same record up to the JSON form of the result
RecordEq(r1, r2) == json_record(r1) = json_record(r2)

SeqToSet(s) == {s[k] : k \in DOMAIN s}

\* C1: a session's completed_files counter never exceeds its total_files,
\* whatever sequence of store operations ran.
C1_CounterWithinTotal ==
    \A sid \in DOMAIN state.sessions :
        state.sessions[sid].completed_files <= state.sessions[sid].total_files

MarkOf(fp) ==
    \E sid \in SessionArgs, f \in Files :
        /\ CurrentFingerprint(f) = fp
        /\ \/ \E r \in Results : mark_file_completed(sid, f, r)
           \/ \E e \in Errors : mark_file_failed(sid, f, e)

C3_LastWriteWins ==
    [][\A sid \in SessionArgs, f \in Files, r \in Results :
          mark_file_completed(sid, f, r)
              => get_cached_result(state', mtime', f) = r]_vars

\* C3 witness: a fingerprint written twice by mark_file_completed and never
\* by mark_file_failed, whose cached result is one of the results.
C3_Witness ==
    \E f \in Files :
        /\ WritesOf(CurrentFingerprint(f), "completed") >= 2
        /\ WritesOf(CurrentFingerprint(f), "failed") = 0
        /\ get_cached_result(state, mtime, f) \in Results

HasSuccessRecord(f) ==
    /\ CurrentFingerprint(f) \in DOMAIN state.completed_files
    /\ "result" \in DOMAIN state.completed_files[CurrentFingerprint(f)]

\* C5: get_cached_result(f) is the stored result exactly when the table holds
\* a successful record under f's current fingerprint, and is empty otherwise
\* (the file changed, the record is a failure record, or there is none).
C5_CachedByCurrentFingerprint ==
    \A f \in Files :
        IF HasSuccessRecord(f)
        THEN get_cached_result(state, mtime, f)
                 = state.completed_files[CurrentFingerprint(f)].result
        ELSE get_cached_result(state, mtime, f) = None

\* C5 witness: a file with a successful record written at another
\* modification time and none at the current one; its cached result is empty.
C5_Witness ==
    \E f \in Files, m \in Mtimes :
        /\ m # mtime[f]
        /\ <<f, m>> \in DOMAIN state.completed_files
        /\ "result" \in DOMAIN state.completed_files[<<f, m>>]
        /\ CurrentFingerprint(f) \notin DOMAIN state.completed_files
        /\ get_cached_result(state, mtime, f) = None

\* C6: get_pending_files(session) is the session's file list, in order,
\* without the files whose current fingerprint is a key of the global table,
\* whichever session wrote the record; an unknown id yields the empty list.
C6_PendingAgainstGlobalTable ==
    /\ get_pending_files(state, mtime, UnknownSession) = << >>
    /\ \A sid \in SessionIds :
          get_pending_files(state, mtime, sid) =
             IF sid \in DOMAIN state.sessions
             THEN SelectSeq(state.sessions[sid].files,
                            LAMBDA f : CurrentFingerprint(f) \notin DOMAIN state.completed_files)
             ELSE << >>

\* C6 witness: the file of session s2 was recorded under session s1 only, and
\* s2 has nothing pending.
C6_Witness ==
    /\ "s2" \in DOMAIN state.sessions
    /\ MarksOfSession("s2") = 0
    /\ CurrentFingerprint("a") \in DOMAIN state.completed_files
    /\ state.completed_files[CurrentFingerprint("a")].session_id = "s1"
    /\ get_pending_files(state, mtime, "s2") = << >>
    /\ get_pending_files(state, mtime, "s1") = <<"b", "c">>

\* every file of session sid was marked (completed or failed) exactly once
\* under that session, and nothing else was
EachFileMarkedOnce(sid) ==
    /\ \A f \in SeqToSet(state.sessions[sid].files) : MarksOfFile(sid, f) = 1
    /\ \A f \in Files \ SeqToSet(state.sessions[sid].files) : MarksOfFile(sid, f) = 0

\* C7: mark_file_failed stores a failure record, adds one to the session's
\* completed_files, and leaves the file not pending and without a cached
\* result; the counter is the number of marks made under the session, so a
\* session whose files were each marked once has completed_files = n.
C7_FailedCountsTowardProgress ==
    /\ [](\A sid \in DOMAIN state.sessions :
            /\ state.sessions[sid].completed_files = MarksOfSession(sid)
            /\ EachFileMarkedOnce(sid)
                 => state.sessions[sid].completed_files = Len(state.sessions[sid].files))
    /\ [][\A sid \in SessionArgs, f \in Files, e \in Errors :
            mark_file_failed(sid, f, e) =>
              /\ is_file_failed(state', mtime', f)
              /\ get_cached_result(state', mtime', f) = None
              /\ \A s \in DOMAIN state'.sessions :
                    /\ f \notin SeqToSet(get_pending_files(state', mtime', s))
                    /\ state'.sessions[s].completed_files =
                          state.sessions[s].completed_files + (IF s = sid THEN 1 ELSE 0)]_vars

\* C7 witness: the one file of session s2 was marked failed once under s2;
\* the counter is 1 of 1, nothing is pending, nothing is cached.
C7_Witness ==
    /\ "s2" \in DOMAIN state.sessions
    /\ EachFileMarkedOnce("s2")
    /\ is_file_failed(state, mtime, "a")
    /\ state.completed_files[CurrentFingerprint("a")].session_id = "s2"
    /\ state.sessions["s2"].completed_files = 1
    /\ state.sessions["s2"].total_files = 1
    /\ get_pending_files(state, mtime, "s2") = << >>
    /\ get_cached_result(state, mtime, "a") = None

(***************************************************************************)
(* The claims about the reference vuln-specific loop, checked under        *)
(* SpecLoop.                                                               *)
(***************************************************************************)
\* C8: the loop of one file and category issues at most 7 model calls,
\* whatever the reports and the Resolver's answers are.
C8_AtMostSevenCalls == calls <= Rounds

\* C8 witness: a loop that ran all its rounds, with 7 calls made.
C8_Witness == ended_by = "rounds" /\ calls = Rounds /\ i = Rounds - 1

\* C9 as stated: the no-growth termination fires only when the round before
\* it was a no-growth round too.
C9_EndsOnlyAfterTwoConsecutive ==
    ended_by = "no_growth" => (i - 1) \in no_growth_rounds

\* C9 amended: the no-growth termination fires on the second no-growth round
\* of the category's loop, consecutive with the first or not; a round that
\* grows the set in between does not restore the tolerance.
C9_EndsOnSecondNoGrowthRound ==
    /\ ended_by = "no_growth" =>
          Cardinality(no_growth_rounds) = 2 /\ i \in no_growth_rounds
    /\ Cardinality(no_growth_rounds) >= 2 => ended_by = "no_growth"

\* C9 witness: the loop ended on the no-growth round 3 after the no-growth
\* round 1 and a round 2 that grew the set.
C9_Witness == ended_by = "no_growth" /\ no_growth_rounds = {1, 3}

\* the last report is of the category being analysed and requests nothing
ZeroContextReport ==
    /\ secondary_analysis_report.vuln_type = vuln_type
    /\ secondary_analysis_report.round >= 0
    /\ secondary_analysis_report.context_code = {}

\* C10: once a round's report requests no context the loop is over: that
\* report, of the round the loop stopped in, is its result, and no model
\* call and no Resolver call of that category follows.
C10_ZeroContextStops ==
    /\ [](ZeroContextReport =>
            /\ pc \in {"next_category", "done"}
            /\ ended_by = "zero_context"
            /\ secondary_analysis_report.round = i
            /\ calls = i + 1)
    /\ [][ended_by = "zero_context" =>
            \/ calls' = calls /\ extracts' = extracts
                  /\ secondary_analysis_report' = secondary_analysis_report
            \/ vuln_type' # vuln_type /\ calls' = 0 /\ extracts' = 0]_vars

\* C10 witness: the report of round 2 requested nothing after rounds that
\* used the Resolver; the file is done with three calls made.
C10_Witness ==
    /\ pc = "done"
    /\ ZeroContextReport
    /\ ended_by = "zero_context"
    /\ i = 2 /\ calls = 3 /\ extracts >= 2

\* a category's loop in which every report so far requested context and the
\* Resolver resolved none of the requested names
ScriptedLoop ==
    /\ vuln_type # ""
    /\ calls > 0
    /\ pc # "raised"
    /\ ended_by # "zero_context"
    /\ stored_code_definitions = {}

\* C11: when the model requests context in every round and the Resolver never
\* resolves it, the loop makes the calls of rounds 0, 1 and 2 and ends at
\* round 2 by the no-growth termination; no call of that loop follows.
C11_ScriptedLoopEndsAtRoundTwo ==
    /\ [](ScriptedLoop =>
            /\ calls <= 3
            /\ ended_by \in {"", "no_growth"}
            /\ (ended_by = "no_growth") <=> (calls = 3)
            /\ ended_by = "no_growth" =>
                  i = 2 /\ no_growth_rounds = {1, 2} /\ pc \in {"next_category", "done"}
            /\ ended_by = "" => pc \in {"resolve", "chat"} /\ calls = i)
    /\ [][ScriptedLoop /\ ended_by = "no_growth" =>
            calls' = calls \/ (calls' = 0 /\ i' = 0)]_vars

\* C11 witness: the model requested n1 in rounds 0, 1 and 2, the Resolver was
\* asked for it in rounds 1 and 2 and found nothing, and the loop ended at
\* round 2 with three calls made.
C11_Witness ==
    /\ ended_by = "no_growth"
    /\ i = 2 /\ calls = 3 /\ extracts = 2
    /\ stored_code_definitions = {}
    /\ secondary_analysis_report.context_code = {"n1"}

(***************************************************************************)
(* The claims about the Resolver's calls over a run, checked under         *)
(* SpecRun.                                                                *)
(***************************************************************************)
\* a step that does the lookups of a round
ResolveStep == pc = "resolve" /\ pc' = "chat"

\* C12 as stated: no name resolved earlier in the run, in whatever category
\* or file, is passed to the Resolver or resolved again.
C12_ResolvedOncePerSession ==
    [][ResolveStep =>
         (resolver_log'.passed \cup resolver_log'.found) \cap resolver_log.resolved = {}]_vars

\* C12 amended: within the loop of one category of one file, a name already
\* resolved in that loop is not passed to the Resolver and is not resolved
\* again, and the resolved set only grows until the loop is left.
C12_ResolvedOncePerCategoryLoop ==
    /\ [][ResolveStep =>
            /\ resolver_log'.passed \cap stored_code_definitions = {}
            /\ resolver_log'.found \cap stored_code_definitions = {}
            /\ stored_code_definitions' = stored_code_definitions \cup resolver_log'.found]_vars
    /\ [][\/ stored_code_definitions \subseteq stored_code_definitions'
          \/ stored_code_definitions' = {} /\ i' = 0 /\ calls' = 0]_vars

\* C12 witness: the report of round 1 requested the resolved n1 again and the
\* new n2; only n2 went to the Resolver in round 2.
C12_Witness ==
    /\ pc = "chat" /\ i = 2
    /\ secondary_analysis_report.context_code = {"n1", "n2"}
    /\ resolver_log.passed = {"n2"}
    /\ resolver_log.found = {"n2"}
    /\ stored_code_definitions = {"n1", "n2"}

(***************************************************************************)
(* The claims about the rate limiter, checked under SpecLimiter.           *)
(***************************************************************************)
\* C13: with no time elapsed since the bucket of capacity C was made, the
\* first C calls of can_proceed return true and the next returns false: no
\* call is denied before C were admitted, and no more than C are admitted.
C13_FirstCallsAdmittedThenDenied ==
    (Constructed /\ now = 0) =>
        /\ admitted <= requests_per_minute
        /\ denied > 0 => admitted = requests_per_minute

\* C13 witness: capacity 2, two calls admitted and the third denied at once.
C13_Witness ==
    /\ requests_per_minute = 2 /\ now = 0
    /\ admitted = 2 /\ denied = 1

\* C14: a caller that was denied, read wait_time right after, slept that long
\* and calls can_proceed again, with no other caller using the bucket in
\* between, is admitted.
C14_AdmittedAfterWaitTime ==
    \A t \in Threads :
        (thread[t].phase = "retry" /\ thread[t].pc = "release") => thread[t].result

\* C14 witness: a retry after a sleep of a positive wait_time was admitted.
C14_Witness ==
    /\ thread["t1"].phase = "retry"
    /\ thread["t1"].pc = "release"
    /\ thread["t1"].result
    /\ thread["t1"].wait > 0
    /\ now = last_refill

\* C15: with less than one token in a bucket of capacity C, wait_time is
\* positive and at most 60/C seconds, so is the wait_time a caller reads right
\* after a denial, and with a token available wait_time is 0.
C15_WaitTimeRange ==
    Constructed =>
        /\ LET w == wait_time(tokens, requests_per_minute)
           IN IF tokens >= Minute THEN w = 0
              ELSE 0 < w /\ w * requests_per_minute <= Minute
        /\ \A t \in Threads :
              thread[t].phase = "read" =>
                  0 < thread[t].wait /\ thread[t].wait * requests_per_minute <= Minute

\* C15 witness: capacity 2, both tokens used, and the third caller, denied,
\* read a wait_time of 30 seconds.
C15_Witness ==
    /\ requests_per_minute = 2
    /\ thread["t1"].phase = "read"
    /\ thread["t1"].wait = 30

\* C16: whatever the interleaving of the threads, the calls admitted never
\* exceed the initial tokens plus those refilled by the elapsed time, the
\* bucket never goes below zero, one thread at a time is inside can_proceed's
\* locked region, and the tokens a thread read for its decrement are still
\* the bucket's when it writes.
C16_RefillConsumeAtomic ==
    Constructed =>
        /\ admitted * Minute <= requests_per_minute * Minute + now * requests_per_minute
        /\ tokens >= 0
        /\ \A t, u \in Threads :
              ( /\ thread[t].pc \in {"refill", "check", "consume", "release"}
                /\ thread[u].pc \in {"refill", "check", "consume", "release"} ) => t = u
        /\ \A t \in Threads : thread[t].pc = "consume" => thread[t].read = tokens

\* C16 witness: t1 is about to take the one token refilled since the bucket
\* was emptied, while t2 waits for the lock.
C16_Witness ==
    /\ thread["t1"].pc = "consume"
    /\ thread["t2"].pc = "acquire"
    /\ now > 0
    /\ (admitted + 1) * Minute = requests_per_minute * Minute + now * requests_per_minute

(***************************************************************************)
(* The claims about the dispatcher, checked under SpecDispatch.            *)
(***************************************************************************)
\* the backoff sleeps, the limiter's wait_time sleeps left out
RECURSIVE Backoffs(_)
Backoffs(sl) ==
    IF sl = << >> THEN << >>
    ELSE IF Head(sl).why = "limiter" THEN Backoffs(Tail(sl))
    ELSE <<Head(sl)>> \o Backoffs(Tail(sl))

\* their delays
BackoffDelays(sl) == [k \in DOMAIN Backoffs(sl) |-> Backoffs(sl)[k].delay]

LastFailure == failures[Len(failures)]

\* C17: a dispatch with max_retries = N makes at most N attempts, returns
\* only with the response of a successful model call, and raises the last
\* failure when no attempt succeeded (stated for N >= 1).
C17_AtMostNAttemptsNoEmptyReturn ==
    max_retries >= 1 =>
        /\ sends <= max_retries
        /\ dpc \in {"attempt", "denied", "recheck", "chat"} => attempt < max_retries
        /\ dpc = "returned" => reply # None
        /\ dpc = "raised" => reply.raised = LastFailure

\* C18: a validation failure is the last thing its dispatch does: it is
\* raised to the caller from the attempt it occurred in, and when it is the
\* first failure one model call was made and no backoff sleep (stated for
\* the default max_retries).
C18_ValidationFailureNotRetried ==
    \A k \in DOMAIN failures :
        (max_retries = DefaultRetries /\ failures[k] = "ValidationFailure") =>
            /\ k = Len(failures)
            /\ dpc = "raised"
            /\ reply.raised = "ValidationFailure"
            /\ k = 1 => sends = 1 /\ BackoffDelays(sleeps) = << >>

\* the attempts that failed unexpectedly
UnexpectedFailures == {k \in DOMAIN failures : failures[k] = "Exception"}

\* C19: the first unexpected failure of a dispatch, on whichever attempt, is
\* not raised but followed by a flat base_delay sleep, and the second one is
\* raised.
C19_UnexpectedRetriedOnce ==
    /\ (Cardinality(UnexpectedFailures) = 1 /\ LastFailure = "Exception") =>
          /\ dpc # "raised"
          /\ Backoffs(sleeps)[Len(Backoffs(sleeps))] =
                [why |-> "unexpected", delay |-> base_delay]
    /\ Cardinality(UnexpectedFailures) >= 2 =>
          /\ LastFailure = "Exception"
          /\ dpc = "raised"
          /\ reply.raised = "Exception"
          /\ Cardinality(UnexpectedFailures) = 2

\* C20: with max_retries = 3, when the model call raises RateLimitError in
\* the first two attempts and answers in the third, the dispatch returns
\* that answer and its backoff sleeps are min(base_delay*2, max_delay) and
\* min(base_delay*4, max_delay): base_delay*2 + base_delay*4 in all when
\* uncapped, all of it elapsed.
C20_TwoRateLimitsThenSuccess ==
    ( /\ max_retries = 3
      /\ dpc = "returned"
      /\ sends = 3
      /\ failures = <<"RateLimitError", "RateLimitError">> ) =>
        /\ reply = [response |-> TRUE, attempt |-> 2]
        /\ BackoffDelays(sleeps) =
              <<Min(base_delay * 2, max_delay), Min(base_delay * 4, max_delay)>>
        /\ base_delay * 4 <= max_delay =>
              /\ BackoffDelays(sleeps)[1] + BackoffDelays(sleeps)[2] = base_delay * 6
              /\ now >= base_delay * 2 + base_delay * 4

\* C20 witness: base_delay 16 and max_delay 100: the dispatch slept 32 and 64
\* seconds and returned the third attempt's response.
C20_Witness ==
    /\ max_retries = 3
    /\ dpc = "returned"
    /\ sends = 3
    /\ failures = <<"RateLimitError", "RateLimitError">>
    /\ reply = [response |-> TRUE, attempt |-> 2]
    /\ base_delay = 16 /\ max_delay = 100
    /\ sleeps = <<[why |-> "rate_limit", delay |-> 32], [why |-> "rate_limit", delay |-> 64]>>

(***************************************************************************)
(* The claims about the state file, checked under SpecSave and SpecLoad.   *)
(***************************************************************************)
\* C21: wherever _save_state is stopped, by a kill or by a failing write,
\* the state file is whole and loadable: it changes in one step only, from
\* the last document fully saved to the document of the new state, and a
\* manager constructed on it never fails.
C21_StateFileNeverPartial ==
    /\ [](json_load_raises(disk) = "no" /\ manager # "raised")
    /\ [][disk' = disk \/ (save_pc = "replace" /\ disk' = json_dump(state))]_vars

\* C21 witness: the process was killed between the open of the temporary
\* file and the end of the write, after an earlier save had gone through.
C21_Witness ==
    /\ manager = "down"
    /\ tmp = Partial
    /\ disk # NoFile
    /\ marks = 2

\* C22: a manager constructed on a state file that exists and cannot be
\* parsed does not fail: the file is moved to the backup path, the state in
\* memory is the fresh empty one, and the manager is there for later
\* operations.
C22_UnparsableFileBackedUp ==
    [][(manager = "down" /\ manager' # "down" /\ json_load_raises(disk) # "no")
          => /\ manager' = "up"
             /\ backup' = disk
             /\ disk' = NoFile
             /\ state' = EmptyState]_vars

(***************************************************************************)
(* The claims about the enhanced orchestrator, checked under SpecBatch.    *)
(***************************************************************************)
\* the state a manager constructed now would load
Durable == load_state(disk)

\* C23: when _process_files is interrupted from the keyboard while file f is
\* analysed, the state file holds no record for f, holds a record for every
\* file finished before f, shows the session as running, and
\* get_pending_files computed from it contains f and every file after f.
C23_InterruptLeavesResumableState ==
    ended = "interrupt" =>
        /\ calculate_file_hash(interrupted, mtime) \notin DOMAIN Durable.completed_files
        /\ \A k \in 1..(pos - 1) :
              outcomes[k] \in {"completed", "raised"}
                 => calculate_file_hash(batch[k], mtime) \in DOMAIN Durable.completed_files
        /\ self_session_id \in DOMAIN Durable.sessions
        /\ Durable.sessions[self_session_id].status = "running"
        /\ \A k \in pos..Len(batch) :
              batch[k] \in SeqToSet(get_pending_files(Durable, mtime, self_session_id))

\* C24: when the analysis of one file raises, the file gets a failure record
\* in the state store and the loop goes on with the next file; a batch that
\* is not interrupted from the keyboard goes through every file of its list.
C24_FailureIsolated ==
    /\ [](bpc = "returned" /\ batch # << >> /\ ended # "interrupt"
             => Len(outcomes) = Len(batch))
    /\ [][outcomes' = Append(outcomes, "raised")
             => /\ is_file_failed(state', mtime, batch[pos])
                /\ bpc' = "loop"
                /\ pos' = pos + 1]_vars

\* C24 witness: the first file raised and the two after it were analysed.
C24_Witness ==
    /\ ended = "end"
    /\ outcomes = <<"raised", "completed", "completed">>
    /\ is_file_failed(state, mtime, "a")

\* C25: a batch that ran to its end reports success (exit status 0) exactly
\* when no file of it has a failure outcome, be it a failure of this run or
\* a skip for a failure recorded earlier.
C25_ExitReflectsFailures ==
    ended = "end" =>
        (exit_status = 0 <=>
            \A k \in 1..Len(outcomes) : outcomes[k] \notin {"raised", "skipped"})

\* C26: when a write of the state file raises an I/O error during a batch,
\* the batch is aborted and the session marked failed; and fail_session
\* never changes the completed-file table.
C26_IOErrorAbortsBatch ==
    /\ [](\A sid \in SessionArgs :
             with_status(state, sid, "failed").completed_files = state.completed_files)
    /\ [][(~io_failed /\ io_failed')
             => /\ bpc' = "returned"
                /\ self_session_id' \in DOMAIN state'.sessions
                /\ state'.sessions[self_session_id'].status = "failed"]_vars

(***************************************************************************)
(* The claim about the Resolver's source extraction, checked under         *)
(* SpecSlice.                                                              *)
(***************************************************************************)
\* the number of characters of the file before position p
Offset(lines, p) == Len(Join(SubSeq(lines, 1, p[1] - 1))) + p[2]

\* C27: for a definition inside the repository whose positions the index
\* reports, the source of the match is the text of the file from the
\* character at (start line, start column) up to, not including, the one at
\* (end line, end column): nothing before, nothing after, all between.
C27_SourceIsExactSlice ==
    (rpc = "extracted" /\ module_origin = "repo" /\ def_start # NoPos)
        => match_source =
              SubSeq(Join(module_lines), Offset(module_lines, def_start) + 1,
                     Offset(module_lines, def_end))

\* C27 witness: a definition from the middle of the first line to the middle
\* of the third, the second line whole between them.
C27_Witness ==
    /\ rpc = "extracted"
    /\ module_origin = "repo"
    /\ def_start = <<1, 1>>
    /\ def_end = <<3, 2>>
    /\ match_source = <<"b", "\n", "c", "\n", "d", "e">>

(***************************************************************************)
(* The claim about the enhanced provider classes, checked under            *)
(* SpecProvider.                                                           *)
(***************************************************************************)
\* C28: chat on an enhanced provider makes at most max_retries attempts,
\* every admitted attempt makes one call of the provider's send_message and
\* takes one limiter token, and chat_with_rate_limiting is entered once.
C28_ChatBoundedNoReentry ==
    /\ entries <= 1
    /\ tries <= DefaultRetries
    /\ provider_sends <= consumed
    /\ consumed <= provider_sends + 1
    /\ ppc \in {"returned", "raised"} => consumed = provider_sends

\* C29: after a denial the dispatcher sleeps wait_time() and checks the
\* bucket once more; denied again, it makes no model call in that attempt
\* and treats the attempt as a rate-limit failure: a sleep of
\* min(base_delay * 2^(attempt+1), max_delay) and the next attempt, or the
\* RateLimitError raised on the last attempt.
C29_DeniedSleepsAndRechecks ==
    [][/\ (dpc = "denied" /\ dpc' # "denied")
          => /\ dpc' = "recheck"
             /\ Len(sleeps') = Len(sleeps) + 1
             /\ sleeps'[Len(sleeps')].why = "limiter"
       /\ (dpc = "recheck" /\ dpc' \notin {"recheck", "chat"})
          => /\ sends' = sends
             /\ failures' = Append(failures, "RateLimitError")
             /\ IF attempt < max_retries - 1
                THEN /\ attempt' = attempt + 1
                     /\ dpc' = "attempt"
                     /\ sleeps' = Append(sleeps,
                           [why |-> "rate_limit",
                            delay |-> Min(base_delay * Pow(2, attempt + 1), max_delay)])
                ELSE /\ dpc' = "raised"
                     /\ reply' = [raised |-> "RateLimitError", attempt |-> attempt]]_vars

(***************************************************************************)
(* The claim about reset_rate_limiter, checked under SpecReset.            *)
(***************************************************************************)
\* C30: every write of tokens and last_refill is made by the holder of the
\* lock, reset_rate_limiter's writes included, and with reset_rate_limiter
\* running beside can_proceed no update is lost (the tokens a thread read for
\* its decrement are still the bucket's when it writes) and the bucket never
\* holds more than its capacity.
C30_ResetUnderLock ==
    /\ [](Constructed =>
             /\ tokens <= requests_per_minute * Minute
             /\ \A t \in Threads : thread[t].pc = "consume" => thread[t].read = tokens)
    /\ [][(tokens' # tokens \/ last_refill' # last_refill) /\ Constructed
             => /\ lock # NoThread
                /\ thread[lock].pc \in {"refill", "consume"}
                /\ reset_pc' = reset_pc]_vars

(***************************************************************************)
(* A further claim about the rate limiter, checked under SpecLimiter.      *)
(***************************************************************************)
\* C31: a bucket of capacity C >= 1 under a clock that never goes back holds
\* between 0 and C tokens in every state; a refill never takes it above C,
\* and a can_proceed that is denied leaves the tokens its refill produced.
C31_TokensWithinCapacity ==
    /\ [](Constructed =>
             /\ requests_per_minute >= 1
             /\ 0 <= tokens
             /\ tokens <= requests_per_minute * Minute)
    /\ [][/\ now' >= now
          /\ \A t \in Threads :
                (thread[t].pc \in {"check", "release"} /\ ~thread'[t].result
                    /\ thread'[t].pc \in {"release", "idle"} /\ thread'[t] # thread[t])
                   => tokens' = tokens]_vars

\* C31 witness: after admissions and a denial the bucket was refilled up to
\* its capacity by more time than it takes to fill it.
C31_Witness ==
    /\ Constructed
    /\ admitted >= 1
    /\ denied >= 1
    /\ tokens = requests_per_minute * Minute
    /\ last_refill = now

(***************************************************************************)
(* A further claim about the session state store, checked under Spec.      *)
(***************************************************************************)
\* C32: the status of a session is always running, completed or failed, and
\* a session that is completed or failed keeps that status whatever
\* operation comes later.
C32_TerminalStatusKept ==
    /\ [](\A sid \in DOMAIN state.sessions :
             state.sessions[sid].status \in {"running", "completed", "failed"})
    /\ [][\A sid \in DOMAIN state.sessions :
             state.sessions[sid].status \in {"completed", "failed"}
                => /\ sid \in DOMAIN state'.sessions
                   /\ state'.sessions[sid].status = state.sessions[sid].status]_vars

\* C33, the resumable orchestrator: once the initial report is in with
\* confidence 0 or with no category, _analyze_file has returned it after its
\* one model call, and no category was analysed.
C33_EnhancedDone ==
    (first_report.confidence >= 0
        /\ (first_report.confidence = 0 \/ first_report.categories = << >>))
    => /\ apc = "returned"
       /\ chat_calls = 1
       /\ category_reports = << >>
       /\ analysis_result = [confidence |-> first_report.confidence, origin |-> 0]

\* C33, the reference orchestrator: the initial analysis with confidence 0 or
\* with no category leaves the file done, with no round's model call and no
\* call of the Resolver, and a file that is done with none gets none later.
C33_ReferenceDone ==
    /\ \A score \in Confidences, categories \in CategoryLists :
          (InitialAnalysis(score, categories) /\ (score = 0 \/ categories = << >>))
          => (pc' = "done" /\ calls' = 0 /\ extracts' = 0)
    /\ (pc = "done" /\ calls = 0 /\ extracts = 0)
          => (pc' = "done" /\ calls' = 0 /\ extracts' = 0)

\* C33: in both orchestrators a file whose initial report has confidence 0 or
\* an empty category list is done after exactly one model call, with no
\* vulnerability-specific round and no call of the Resolver.
C33_DoneAfterOneCall == [] C33_EnhancedDone /\ [][C33_ReferenceDone]_vars

\* _analyze_file has returned an initial report that names a category with
\* confidence 0
C33_Witness ==
    /\ apc = "returned"
    /\ first_report.confidence = 0
    /\ Len(first_report.categories) > 0
    /\ chat_calls = 1

\* the confidence of the report of origin k: the initial report's for 0, the
\* k-th category's otherwise (-1 when that call raised)
ReportSeen(k) == IF k = 0 THEN first_report.confidence ELSE category_reports[k]

\* C34: in _analyze_file the retained report, and in the end the returned
\* one, has the maximum confidence over the initial report and the category
\* reports received so far, and it is the earliest report with that
\* confidence: a category's report replaces the retained one only when its
\* confidence is strictly higher.
C34_ReturnsEarliestMaximum ==
    /\ (apc = "categories" \/ (apc = "returned" /\ first_report.confidence >= 0))
       => /\ initial_analysis_report.origin \in 0..Len(category_reports)
          /\ initial_analysis_report.confidence
                = ReportSeen(initial_analysis_report.origin)
          /\ \A k \in 0..Len(category_reports) :
                /\ ReportSeen(k) <= initial_analysis_report.confidence
                /\ k < initial_analysis_report.origin
                      => ReportSeen(k) < initial_analysis_report.confidence
    /\ (apc = "returned" /\ first_report.confidence >= 0)
       => analysis_result = initial_analysis_report

\* _analyze_file has returned the first category's report, which the second
\* category's report equalled in confidence
C34_Witness ==
    /\ apc = "returned"
    /\ Len(category_reports) = 2
    /\ category_reports[1] = 8
    /\ category_reports[2] = 8
    /\ first_report.confidence = 5
    /\ analysis_result = [confidence |-> 8, origin |-> 1]

\* C35: extract runs its strategies in the order file search, project
\* search, exhaustive enumeration, fallback enumeration; a strategy is run
\* only after every earlier one found nothing; extract returns the hit of
\* the last strategy run, and returns nothing exactly when all four were run
\* and found nothing.
C35_FirstHitInOrder ==
    /\ Len(consulted) <= Len(Strategies)
    /\ \A k \in 1..Len(consulted) :
          /\ consulted[k].strategy = Strategies[k]
          /\ k < Len(consulted) => ~consulted[k].hit
    /\ xpc = "returned"
       => /\ consulted # << >>
          /\ (extract_result = NoMatch)
                <=> (Len(consulted) = Len(Strategies)
                        /\ \A k \in 1..Len(consulted) : ~consulted[k].hit)
          /\ extract_result # NoMatch
                => /\ consulted[Len(consulted)].hit
                   /\ extract_result.strategy = consulted[Len(consulted)].strategy

\* extract has returned the hit of the fallback enumeration, which it ran
\* after the three other strategies had found nothing
C35_Witness ==
    /\ xpc = "returned"
    /\ scripts
    /\ Len(consulted) = 4
    /\ \A k \in 1..3 : ~consulted[k].hit
    /\ consulted[4].hit
    /\ extract_result.strategy = "fallback"

\* the trailing segments of the qualified name are the segments of the
\* requested name
SegmentSuffix(full, symbol) ==
    /\ Len(Split(symbol)) <= Len(Split(full))
    /\ SubSeq(Split(full), Len(Split(full)) - Len(Split(symbol)) + 1, Len(Split(full)))
          = Split(symbol)

\* C36: a name with a qualified name that the exhaustive enumeration matched
\* has the requested name's segments as the trailing segments of its
\* qualified name.
C36_MatchOnSegmentBoundary ==
    (extract_result # NoMatch /\ extract_result.strategy = "all_names_search"
        /\ extract_result.via.full_name # << >>)
    => SegmentSuffix(extract_result.via.full_name, symbol_name)

\* C37: when _process_files has run to its end and marked the session
\* completed, every file of its list has a record in the completed-file
\* table, and get_pending_files of the session is empty.
C37_CompletedLeavesNothingPending ==
    ended = "end" =>
        /\ state.sessions[self_session_id].status = "completed"
        /\ \A k \in 1..Len(batch) :
              calculate_file_hash(batch[k], mtime) \in DOMAIN state.completed_files
        /\ get_pending_files(state, mtime, self_session_id) = << >>

\* the file the loop is at has no record under its current fingerprint
Unrecorded == calculate_file_hash(batch[pos], mtime) \notin DOMAIN state.completed_files

\* C38: in a resumed session, a pending file that is not empty and whose
\* model call succeeds is recorded as completed, not as failed.
C38_ResumeAnalysesPending ==
    [][\A r \in BatchResults, ok \in BOOLEAN :
          (path_type = "str" /\ bpc = "loop" /\ pos <= Len(batch) /\ Unrecorded
              /\ ProcessFile("result", r, ok))
          => /\ get_cached_result(state', mtime, batch[pos]) = r
             /\ ~is_file_failed(state', mtime, batch[pos])]_vars

\* the file the loop is at has a record with a result and no failure, or a
\* failure record, under its current fingerprint
Recorded(status) ==
    LET file_hash == calculate_file_hash(batch[pos], mtime) IN
    /\ file_hash \in DOMAIN state.completed_files
    /\ IF status = "failed"
       THEN /\ "status" \in DOMAIN state.completed_files[file_hash]
            /\ state.completed_files[file_hash].status = "failed"
       ELSE /\ "result" \in DOMAIN state.completed_files[file_hash]
            /\ ~("status" \in DOMAIN state.completed_files[file_hash]
                 /\ state.completed_files[file_hash].status = "failed")

====
